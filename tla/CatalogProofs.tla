----------------------------- MODULE CatalogProofs -----------------------------
(***************************************************************************)
(* Proofs about the catalog, for any numbers of connections and requests and *)
(* any skus that satisfy CatalogAssumption.                                  *)
(*                                                                         *)
(* Four groups of facts, each inductive once the ones before it are known:   *)
(*   Basic      what transactions see of each other's rows, and what each    *)
(*              kind of transaction has done at each statement;              *)
(*   StockInv   movements, balances and the products they refer to;          *)
(*   ImportInv  import runs and their products;                              *)
(*   ImageInv   files, rows and what finished requests still destroy.        *)
(* For each action there is a lemma ...Effect that says once what it does to *)
(* its transaction, and from that lemma one per group.                       *)
(***************************************************************************)
EXTENDS Catalog, FiniteSetTheorems, TLAPS

Skus == CsvSkus \cup {PreviewSku, FixtureSku}
ProductIds == Skus \X Nat

Entry       == [key : Nat, born : Nat]
RunRow      == [key : Nat, born : Nat, status : {"PREVIEW", "COMMITTED"}, skus : SUBSET Skus]
MovementRow == [key : Nat, born : Nat, product : ProductIds]
BalanceRow  == [key : ProductIds, born : Nat, onHand : Nat]
ProductRow  == [key : Skus, id : Nat, born : Nat, by : Nat \cup {NoRun}, image : Nat]
RowOf == [t \in TableNames |->
  CASE t = "runs" -> RunRow [] t = "movements" -> MovementRow [] t = "balances" -> BalanceRow
    [] t = "products" -> ProductRow [] OTHER -> Entry]
Rows == UNION {RowOf[t] : t \in TableNames}

TablesOK(d) == d \in [TableNames -> SUBSET Rows] /\ \A t \in TableNames : d[t] \subseteq RowOf[t]

Transaction ==
  [pc : {"idle", "create", "mark", "ensure", "lock", "write", "recheck", "delete", "seed", "commit",
         "store", "image", "publish", "cleanup", "undo"},
   request : Nat, run : Nat \cup {NoRun}, rest : SUBSET Skus, product : ProductIds,
   image : Nat, old : Nat, step : 0 .. 6, waiting : BOOLEAN, seen : SUBSET Rows,
   del : [TableNames -> SUBSET Rows], ins : [TableNames -> SUBSET Rows]]

Good(x) ==
  /\ x \in Transaction
  /\ TablesOK(x.del) /\ TablesOK(x.ins)
  /\ IsFiniteSet(x.ins["movements"])

TypeOK ==
  /\ TablesOK(db) /\ IsFiniteSet(db["movements"])
  /\ requests \in 0 .. MaxRequests
  /\ tx \in [Workers -> Transaction]
  /\ \A w \in Workers : Good(tx[w])

-----------------------------------------------------------------------------
(* Isolation. *)

Unique(rows) == \A r, s \in rows : r.key = s.key => r = s
Owned(w, t) == tx[w].ins[t] \cup tx[w].del[t]
Numbered == {"records", "runs", "audit", "movements"}

TableIsolated(t) ==
  /\ Unique(db[t])
  /\ \A w \in Workers :
       /\ tx[w].del[t] \subseteq db[t]
       /\ tx[w].ins[t] \cap db[t] \subseteq tx[w].del[t]
       /\ Unique(Visible(w, t))
       /\ \A r \in tx[w].ins[t] :
            \/ r.born = tx[w].request /\ tx[w].request # 0
            \/ \E s \in tx[w].del[t] : SameRow(s, r)
  /\ \A v, w \in Workers : v # w => \A r \in Owned(v, t), s \in Owned(w, t) : r.key # s.key
  /\ t \in Numbered => \A r \in db[t] \cup UNION {tx[w].ins[t] : w \in Workers} : r.key \in {0, r.born}

Old(n) ==
  /\ n <= requests
  /\ \A w \in Workers : tx[w].request # 0 => tx[w].request # n
Births ==
  /\ \A t \in TableNames : \A r \in db[t] : Old(r.born)
  /\ \A w \in Workers :
       /\ tx[w].request <= requests
       /\ \A v \in Workers \ {w} : tx[w].request # 0 => tx[v].request # tx[w].request
       /\ \A x \in tx[w].seen : x.born <= requests /\ \A v \in Workers \ {w} : tx[v].request # 0 => tx[v].request # x.born

Isolation == Births /\ \A t \in TableNames : TableIsolated(t)

-----------------------------------------------------------------------------
(* What each kind of transaction has done, and what it has not. *)

IsReset(x) == x.pc \in {"delete", "seed"} \/ x.step > 0
Untouched(x, t) == x.del[t] = {} /\ x.ins[t] = {}

\* A change keeps the row.
Renews(R, S) == \A r \in R : \E s \in S : SameRow(s, r)
Renewed(x) == \A t \in TableNames : Renews(x.del[t], x.ins[t])
Keeps(x) ==
  /\ Renewed(x)
  /\ \A r \in x.del["products"] : \E s \in x.ins["products"] :
       SameRow(s, r) /\ s.id = r.id /\ s.by = r.by
  /\ \A r \in x.del["runs"] : \E s \in x.ins["runs"] :
       SameRow(s, r) /\ s.skus = r.skus /\ s.status = "COMMITTED"
  /\ \A t \in {"records", "audit", "movements"} : x.del[t] = {}

PlainShape(x) ==
  /\ Keeps(x)
  /\ x.step = 0
  /\ x.pc \notin {"idle", "cleanup", "undo"} => x.request # 0
  /\ x.pc # "commit" => \A t \in {"records", "audit", "movements", "runs"} : Untouched(x, t)
  /\ x.pc \notin {"lock", "write", "commit"} => Untouched(x, "balances")
  /\ x.pc \notin {"create", "mark", "commit", "publish"} => Untouched(x, "products")
  /\ x.pc = "write" => \E b \in x.ins["balances"] : b.key = x.product

ResetShape(x) ==
  /\ x.request # 0
  /\ x.pc \in {"delete", "seed", "commit"}
  /\ x.pc = "delete" <=> x.step < 6
  /\ x.step < 6 => x.del["products"] = {}
  /\ x.step < 5 => x.del["balances"] = {}
  /\ x.pc # "commit" => \A t \in TableNames : x.ins[t] = {}
  /\ x.pc = "commit" => \A t \in TableNames \ {"records"} : x.ins[t] = Fixture(x.request)[t]

Shape(x) == IF IsReset(x) THEN ResetShape(x) ELSE PlainShape(x)
Basic == TypeOK /\ Isolation /\ \A w \in Workers : Shape(tx[w])

-----------------------------------------------------------------------------
(* Stock. *)

Of(movements, p) == {m \in movements : m.product = p}
LedgerOf(b, movements) == b.onHand = Cardinality(Of(movements, b.key))

Refers(d) ==
  /\ \A m \in d["movements"] : \E p \in d["products"] : ProductId(p) = m.product
  /\ \A m \in d["movements"] : \E b \in d["balances"] : b.key = m.product
  /\ \A b \in d["balances"] : \E m \in d["movements"] : b.key = m.product

StockOK(w) ==
  /\ \A b \in Owned(w, "balances") : b.key = tx[w].product
  /\ \A m \in tx[w].ins["movements"] :
       /\ \E b \in tx[w].ins["balances"] : b.key = m.product
       /\ \E p \in db["products"] : ProductId(p) = m.product
  /\ tx[w].pc = "commit" => \A b \in tx[w].ins["balances"] : \E m \in tx[w].ins["movements"] : m.product = b.key
  /\ \A b \in tx[w].ins["balances"] : LedgerOf(b, Visible(w, "movements"))

\* No reset removes a product another transaction refers to.
Exclusive ==
  \A v, w \in Workers : Resets(v) /\ ~Resets(w) /\ v # w =>
    \A p \in tx[v].del["products"] : ~RefersTo(tx[w].ins, p)

Knows(v, r) == \E x \in tx[v].seen : SameRow(x, r)

HasBalanceDeleted(v) ==
  \A m \in tx[v].del["movements"], b \in db["balances"] : b.key = m.product => b \in tx[v].del["balances"]

ResetLedger(v) ==
  /\ tx[v].pc = "delete" /\ tx[v].step = 4 /\ tx[v].waiting =>
       \A m \in tx[v].del["movements"], b \in db["balances"] : b.key = m.product => Knows(v, b)
  /\ tx[v].step >= 5 => HasBalanceDeleted(v)
  /\ tx[v].pc = "delete" /\ tx[v].step = 5 /\ tx[v].waiting =>
       \A p \in db["products"] :
         \/ \E m \in tx[v].del["movements"] : m.product = ProductId(p)
         \/ \E b \in tx[v].del["balances"] : b.key = ProductId(p)
         => Knows(v, p)
  /\ tx[v].step = 6 =>
       /\ \A m \in tx[v].del["movements"] : \E p \in tx[v].del["products"] : ProductId(p) = m.product
       /\ \A m \in Visible(v, "movements") : \E p \in Visible(v, "products") : ProductId(p) = m.product
       /\ \A b \in tx[v].del["balances"], m \in db["movements"] :
            m.product = b.key => m \in tx[v].del["movements"]
  /\ tx[v].pc = "commit" =>
       \A m \in db["movements"] \ tx[v].del["movements"] : m.product # FixtureId

-----------------------------------------------------------------------------
(* Imports. *)

RunsOK ==
  \A r \in db["runs"] \cup UNION {tx[w].ins["runs"] : w \in Workers} : r.key = 0 => r.skus = {PreviewSku}

Inserted(w) == {p.key : p \in tx[w].ins["products"]}
ImportOK(w) ==
  LET x == tx[w] IN
  /\ x.run # 0 => Old(x.run)
  /\ x.pc = "mark" => x.rest = {} /\ x.run # NoRun
  /\ \A p \in x.ins["products"] : p.by \in {NoRun, x.run} \/ \E s \in x.del["products"] : SameRow(s, p)
  /\ x.run # NoRun =>
       /\ x.pc \in {"create", "mark", "commit"} /\ x.step = 0
       /\ x.del["products"] = {} /\ \A p \in x.ins["products"] : p.by = x.run
       /\ x.run = 0 => Inserted(w) \cup x.rest = {PreviewSku}
       /\ \A r \in db["runs"] \cup x.ins["runs"] : r.key = x.run => r.skus = Inserted(w) \cup x.rest
       /\ x.pc = "commit" =>
            x.rest = {} /\ \E r \in x.ins["runs"] : r.key = x.run /\ r.status = "COMMITTED"

ImportsReset(v) ==
  /\ tx[v].pc = "delete" /\ tx[v].step = 5 /\ tx[v].waiting =>
       /\ \A p \in db["products"] : (\E r \in tx[v].del["runs"] : r.key = p.by) => Knows(v, p)
       /\ \A p, q \in db["products"] : p.by = q.by /\ p.by # NoRun /\ Knows(v, p) => Knows(v, q)
  /\ tx[v].step = 6 =>
       /\ \A p \in db["products"] : (\E r \in tx[v].del["runs"] : r.key = p.by) => p \in tx[v].del["products"]
       /\ \A p, q \in db["products"] : p.by = q.by /\ p.by # NoRun /\ p \in tx[v].del["products"] => q \in tx[v].del["products"]

-----------------------------------------------------------------------------
(* Images. *)

Setting(w) == tx[w].pc \in {"store", "image", "publish"}
AllProducts == db["products"] \cup UNION {tx[w].ins["products"] : w \in Workers}
ImageOK(w) ==
  LET x == tx[w] IN
  /\ x.old # 0 => Old(x.old)
  /\ Setting(w) \/ x.pc \in {"idle", "cleanup", "undo"} \/ (x.image = 0 /\ x.old = 0)
  /\ Setting(w) /\ x.image # 0 => x.image = x.request /\ x.image \in files
  /\ Setting(w) /\ x.old # 0 => \A p \in AllProducts : p.image = x.old => ProductId(p) = x.product
  /\ \A p \in x.ins["products"] : p.image \in {0, x.image}
  /\ x.pc = "publish" => \E p \in x.ins["products"] : ProductId(p) = x.product
  /\ x.pc = "cleanup" => x.old # 0 /\ \A p \in AllProducts : p.image # x.old
  /\ x.pc = "undo" => x.image # 0 /\ Old(x.image) /\ \A p \in db["products"] : p.image = x.image => p.image \in lost
ImagesOK ==
  /\ \A p \in db["products"] : p.image # 0 => Old(p.image)
  /\ \A p, q \in AllProducts : p.image = q.image /\ p.image # 0 => ProductId(p) = ProductId(q)
-----------------------------------------------------------------------------
\* A statement of transaction w removed R from table t, as it sees it, and
\* wrote S: versions of what it removed, or rows of its own under free keys.
Writes(w, y, t, R, S) ==
  /\ R \subseteq Visible(w, t) /\ Unique(S)
  /\ y.del[t] = tx[w].del[t] \cup (R \cap db[t])
  /\ y.ins[t] = (tx[w].ins[t] \ R) \cup S
  /\ \A r \in R \cup S : \A v \in Workers \ {w} : \A s \in Owned(v, t) : r.key # s.key
  /\ \A s \in S :
       \/ \E r \in R : SameRow(r, s)
       \/ s.born = tx[w].request /\ s.born # 0 /\ \A r \in Visible(w, t) \ R : r.key # s.key
  /\ t \in Numbered => \A s \in S : s.key \in {0, s.born}

LEMMA Written ==
  ASSUME Isolation, NEW w \in Workers, NEW y, tx \in [Workers -> Transaction],
         tx' = [tx EXCEPT ![w] = y], db' = db, y.request = tx[w].request,
         NEW t \in TableNames, NEW R, NEW S, Writes(w, y, t, R, S)
  PROVE  TableIsolated(t)'
<1>a. /\ R \subseteq Visible(w, t) /\ Unique(S)
      /\ y.del[t] = tx[w].del[t] \cup (R \cap db[t])
      /\ y.ins[t] = (tx[w].ins[t] \ R) \cup S
      /\ \A r \in R \cup S : \A v \in Workers \ {w} : \A s \in Owned(v, t) : r.key # s.key
      /\ \A s \in S :
           \/ \E r \in R : SameRow(r, s)
           \/ s.born = tx[w].request /\ s.born # 0 /\ \A r \in Visible(w, t) \ R : r.key # s.key
      /\ t \in Numbered => \A s \in S : s.key \in {0, s.born}
  BY DEF Writes
<1>0. TableIsolated(t)
  BY DEF Isolation
<1>1. tx'[w] = y /\ \A v \in Workers \ {w} : tx'[v] = tx[v]
  OBVIOUS
<1>2. ASSUME NEW s \in S PROVE s \in db[t] => s \in y.del[t]
  <2>1. CASE s.born = tx[w].request /\ s.born # 0
    BY <1>a, <2>1 DEF Isolation, Births, Old
  <2>2. ASSUME NEW r \in R, SameRow(r, s), s \in db[t] PROVE s \in y.del[t]
    <3>1. r.key = s.key /\ r \in Visible(w, t)
      BY <1>a, <2>2 DEF SameRow
    <3>2. CASE s \in tx[w].del[t]
      BY <1>a, <3>2
    <3>3. CASE s \in Visible(w, t)
      BY <1>a, <1>0, <3>1, <3>3, <2>2 DEF TableIsolated, Unique, Visible
    <3> QED BY <1>a, <2>2, <3>2, <3>3 DEF Visible
  <2> QED BY <1>a, <2>1, <2>2
<1>3. /\ y.del[t] \subseteq db[t]
      /\ y.ins[t] \cap db[t] \subseteq y.del[t]
  BY <1>a, <1>0, <1>2 DEF TableIsolated
<1>4. Visible(w, t)' = (Visible(w, t) \ R) \cup S
  BY <1>a, <1>0, <1>1 DEF Visible, TableIsolated
<1>5. Unique(Visible(w, t)')
  <2>1. ASSUME NEW a \in Visible(w, t) \ R, NEW s \in S PROVE a.key # s.key
    BY <1>a, <1>0 DEF TableIsolated, Unique, SameRow
  <2> QED BY <1>a, <1>0, <1>4, <2>1 DEF TableIsolated, Unique
<1>6. \A r \in y.ins[t] :
        \/ r.born = y.request /\ y.request # 0
        \/ \E s \in y.del[t] : SameRow(s, r)
  <2>1. ASSUME NEW r \in tx[w].ins[t]
        PROVE  (r.born = y.request /\ y.request # 0) \/ \E s \in y.del[t] : SameRow(s, r)
    BY <1>a, <1>0 DEF TableIsolated
  <2>2. ASSUME NEW s \in S, NEW r \in R, SameRow(r, s)
        PROVE  (s.born = y.request /\ y.request # 0) \/ \E q \in y.del[t] : SameRow(q, s)
    <3>1. CASE r \in db[t]
      BY <1>a, <2>2, <3>1
    <3>2. CASE r \in tx[w].ins[t]
      BY <1>a, <2>1, <2>2, <3>2 DEF SameRow
    <3> QED BY <1>a, <3>1, <3>2 DEF Visible
  <2> QED BY <1>a, <2>1, <2>2
<1>7. \A v \in Workers \ {w} : \A r \in Owned(v, t), s \in y.ins[t] \cup y.del[t] : r.key # s.key
  BY <1>a, <1>0 DEF TableIsolated, Owned
<1>8. /\ Owned(w, t)' = y.ins[t] \cup y.del[t]
      /\ \A v \in Workers \ {w} : Owned(v, t)' = Owned(v, t) /\ Visible(v, t)' = Visible(v, t)
  BY <1>a, <1>1 DEF Owned, Visible
<1>9. t \in Numbered => \A v \in Workers : \A r \in tx'[v].ins[t] : r.key \in {0, r.born}
  BY <1>a, <1>0, <1>1 DEF TableIsolated
<1>10. \A v \in Workers :
       /\ tx'[v].del[t] \subseteq db'[t]
       /\ tx'[v].ins[t] \cap db'[t] \subseteq tx'[v].del[t]
       /\ Unique(Visible(v, t)')
       /\ \A r \in tx'[v].ins[t] :
            \/ r.born = tx'[v].request /\ tx'[v].request # 0
            \/ \E s \in tx'[v].del[t] : SameRow(s, r)
  BY <1>a, <1>0, <1>1, <1>3, <1>5, <1>6, <1>8 DEF TableIsolated
<1>11. \A u, v \in Workers : u # v => \A r \in Owned(u, t)', s \in Owned(v, t)' : r.key # s.key
  BY <1>a, <1>0, <1>7, <1>8 DEF TableIsolated
<1>12. Unique(db'[t]) /\ (t \in Numbered => \A r \in db'[t] : r.key \in {0, r.born})
  BY <1>a, <1>0 DEF TableIsolated
<1> QED BY <1>9, <1>10, <1>11, <1>12 DEF TableIsolated

LEMMA CommitIsolates ==
  ASSUME Isolation, NEW w \in Workers, NEW y, tx \in [Workers -> Transaction],
         tx' = [tx EXCEPT ![w] = y], db' = Committed(w), y.del = None, y.ins = None,
         NEW t \in TableNames
  PROVE  TableIsolated(t)'
<1>0. TableIsolated(t)
  BY DEF Isolation
<1>1. /\ tx'[w] = y /\ \A v \in Workers \ {w} : tx'[v] = tx[v]
      /\ y.del[t] = {} /\ y.ins[t] = {}
      /\ db'[t] = Visible(w, t)
  BY DEF None, Committed
<1>2. ASSUME NEW v \in Workers \ {w}
      PROVE  /\ tx[v].del[t] \subseteq db'[t]
             /\ tx[v].ins[t] \cap db'[t] \subseteq tx[v].del[t]
             /\ Unique(Visible(v, t)')
  <2>1. \A r \in Owned(v, t), s \in Owned(w, t) : r.key # s.key
    BY <1>0 DEF TableIsolated
  <2>2. tx[v].del[t] \subseteq db[t] /\ tx[v].ins[t] \cap db[t] \subseteq tx[v].del[t]
    BY <1>0 DEF TableIsolated
  <2>3. tx[v].del[t] \subseteq db'[t] /\ tx[v].ins[t] \cap db'[t] \subseteq tx[v].del[t]
    BY <1>1, <2>1, <2>2 DEF Owned, Visible
  <2>4. Visible(v, t)' = (Visible(w, t) \ tx[v].del[t]) \cup tx[v].ins[t]
    BY <1>1 DEF Visible
  <2>5. ASSUME NEW a \in Visible(w, t) \ tx[v].del[t], NEW b \in tx[v].ins[t], a.key = b.key
        PROVE  a = b
    <3>1. CASE a \in tx[w].ins[t]
      BY <2>1, <2>5, <3>1 DEF Owned
    <3>2. CASE a \in db[t]
      BY <1>0, <2>5, <3>2 DEF TableIsolated, Unique, Visible
    <3> QED BY <3>1, <3>2 DEF Visible
  <2>6. Unique(Visible(w, t)) /\ Unique(Visible(v, t))
    BY <1>0 DEF TableIsolated
  <2> QED BY <2>3, <2>4, <2>5, <2>6 DEF Unique, Visible
<1>3. /\ Owned(w, t)' = {} /\ Visible(w, t)' = db'[t]
      /\ \A v \in Workers \ {w} : Owned(v, t)' = Owned(v, t)
  BY <1>1 DEF Owned, Visible
<1>4. Unique(db'[t]) /\ Unique(Visible(w, t)')
  BY <1>0, <1>1, <1>3 DEF TableIsolated
<1>5. t \in Numbered => \A r \in db'[t] \cup UNION {tx'[v].ins[t] : v \in Workers} : r.key \in {0, r.born}
  BY <1>0, <1>1 DEF TableIsolated, Visible
<1> QED BY <1>0, <1>1, <1>2, <1>3, <1>4, <1>5 DEF TableIsolated

-----------------------------------------------------------------------------
LEMMA RowsTyped == \A x \in Rows : x.born \in Nat
<1>1. ASSUME NEW t \in TableNames, NEW x \in RowOf[t] PROVE x.born \in Nat
  BY DEF RowOf, Entry, RunRow, MovementRow, BalanceRow, ProductRow
<1> QED BY <1>1 DEF Rows

LEMMA NoneEmpty == \A t \in TableNames : None[t] = {}
BY DEF None

LEMMA NoneOK == TablesOK(None) /\ IsFiniteSet(None["movements"])
<1>1. None \in [TableNames -> SUBSET Rows] /\ \A t \in TableNames : None[t] = {}
  BY DEF None
<1>2. "movements" \in TableNames
  BY CatalogAssumption
<1> QED BY <1>1, <1>2, FS_EmptySet DEF TablesOK

LEMMA IdleOK == Good(Idle) /\ Idle.del = None /\ Idle.ins = None
<1>1. Idle.del = None /\ Idle.ins = None
  BY DEF Idle
<1>2. Idle \in Transaction
  BY NoneOK DEF Idle, Transaction, TablesOK, Skus, ProductIds, NoRun
<1> QED BY <1>1, <1>2, NoneOK DEF Good

\* What no statement of a transaction changes.
Like(x, y) ==
  /\ y.request = x.request /\ y.run = x.run /\ y.product = x.product
  /\ y.image = x.image /\ y.old = x.old
\* Its rows are the same.
SameHand(x, y) == y.del = x.del /\ y.ins = x.ins

\* It waits for nothing.
Ready(y) == y.waiting = FALSE /\ y.seen = {}
\* It goes on where it was.
Stays(x, y) == y.pc = x.pc /\ y.rest = x.rest /\ y.step = x.step

\* Rows leave one table, and others come.
Handles(x, y, t, R, S) ==
  \A u \in TableNames :
    /\ y.del[u] = x.del[u] \cup IF u = t THEN R \cap db[u] ELSE {}
    /\ y.ins[u] = IF u = t THEN (x.ins[u] \ R) \cup S ELSE x.ins[u]

RowsOf(t, S) == S \subseteq RowOf[t] /\ (t = "movements" => IsFiniteSet(S))

\* A transaction after a statement has removed rows and written others.
LEMMA PutOK ==
  ASSUME NEW x, Good(x), NEW t \in TableNames, TablesOK(db),
         NEW R, NEW S, RowsOf(t, S)
  PROVE  LET y == Put(x, t, R, S) IN
         /\ Good(y) /\ Handles(x, y, t, R, S) /\ Like(x, y)
         /\ Stays(x, y) /\ Ready(y)
<1> DEFINE y == Put(x, t, R, S)
           d == [x.del EXCEPT ![t] = @ \cup (R \cap db[t])]
           i == [x.ins EXCEPT ![t] = (@ \ R) \cup S]
<1>0. S \subseteq RowOf[t] /\ (t = "movements" => IsFiniteSet(S))
  BY DEF RowsOf
<1>1. y = [x EXCEPT !.del = d, !.ins = i, !.waiting = FALSE, !.seen = {}]
  BY DEF Put, Good, Transaction
<1>2. /\ x.del \in [TableNames -> SUBSET Rows] /\ x.ins \in [TableNames -> SUBSET Rows]
      /\ RowOf[t] \subseteq Rows
  BY DEF Good, TablesOK, Rows
<1>3. \A u \in TableNames :
        /\ d[u] = x.del[u] \cup IF u = t THEN R \cap db[u] ELSE {}
        /\ i[u] = IF u = t THEN (x.ins[u] \ R) \cup S ELSE x.ins[u]
  BY <1>2
<1>4. TablesOK(d) /\ TablesOK(i)
  BY <1>0, <1>2, <1>3 DEF TablesOK, Good
<1>5. IsFiniteSet(i["movements"])
  <2>1. "movements" \in TableNames /\ IsFiniteSet(x.ins["movements"])
    BY CatalogAssumption DEF Good
  <2>2. CASE t = "movements"
    <3>1. IsFiniteSet(x.ins["movements"] \ R) /\ IsFiniteSet(S)
      BY <1>0, <2>1, <2>2, FS_Difference
    <3>2. IsFiniteSet((x.ins["movements"] \ R) \cup S)
      BY <3>1, FS_Union, Zenon
    <3> QED BY <1>3, <2>1, <2>2, <3>2
  <2> QED BY <1>3, <2>1, <2>2
<1> HIDE DEF d, i
<1>6. y \in Transaction
  BY ZenonT(40), <1>1, <1>4 DEF Good, Transaction, TablesOK
<1>7. /\ y.del = d /\ y.ins = i /\ y.waiting = FALSE /\ y.seen = {}
      /\ y.pc = x.pc /\ y.request = x.request /\ y.run = x.run /\ y.rest = x.rest
      /\ y.product = x.product /\ y.image = x.image /\ y.old = x.old /\ y.step = x.step
  BY <1>1 DEF Good, Transaction
<1>8. Handles(x, y, t, R, S) /\ Like(x, y) /\ Stays(x, y) /\ Ready(y)
  BY <1>3, <1>7 DEF Handles, Like, Stays, Ready
<1>9. Good(y)
  BY <1>4, <1>5, <1>6, <1>7 DEF Good
<1> QED BY <1>8, <1>9


\* Who is known to have made a row: never a request under way, except his own.
Settled(w, x) ==
  /\ x.born <= requests
  /\ \A v \in Workers \ {w} : tx[v].request # 0 => tx[v].request # x.born

LEMMA VisibleSettled ==
  ASSUME Isolation, TypeOK, NEW w \in Workers, NEW t \in TableNames, NEW x \in Visible(w, t)
  PROVE  Settled(w, x)
<1>1. CASE x \in db[t]
  BY <1>1 DEF Isolation, Births, Old, Settled
<1>2. CASE x \in tx[w].ins[t]
  <2>1. CASE x.born = tx[w].request /\ tx[w].request # 0
    BY <2>1 DEF Isolation, Births, Settled
  <2>2. CASE \E s \in tx[w].del[t] : SameRow(s, x)
    <3>1. PICK s \in db[t] : s.born = x.born
      BY <2>2 DEF Isolation, TableIsolated, SameRow
    <3> QED BY <3>1 DEF Isolation, Births, Old, Settled
  <2> QED BY <1>2, <2>1, <2>2 DEF Isolation, TableIsolated
<1> QED BY <1>1, <1>2 DEF Visible

\* A statement that leaves the rows alone, or writes some.
LEMMA WriteStep ==
  ASSUME Basic, NEW w \in Workers, NEW y, Good(y),
         tx' = [tx EXCEPT ![w] = y], UNCHANGED <<db, requests>>, y.request = tx[w].request,
         \A x \in y.seen : x \in tx[w].seen \/ \E t \in TableNames : x \in Visible(w, t),
         \A t \in TableNames : \E R, S : Writes(w, y, t, R, S),
         Shape(y)
  PROVE  Basic'
<1>1. tx \in [Workers -> Transaction] /\ tx'[w] = y /\ \A v \in Workers \ {w} : tx'[v] = tx[v]
  BY DEF Basic, TypeOK
<1>2. ASSUME NEW t \in TableNames PROVE TableIsolated(t)'
  <2>1. PICK R, S : Writes(w, y, t, R, S)
    OBVIOUS
  <2> QED BY <1>1, <2>1, Written DEF Basic
<1>3. Births'
  <2>1. \A x \in y.seen : Settled(w, x)
    BY VisibleSettled DEF Basic, Settled, Isolation, Births
  <2> QED BY <1>1, <2>1 DEF Basic, Isolation, Births, Old, Settled
<1>4. TypeOK'
  BY <1>1 DEF Basic, TypeOK, Good
<1>5. \A v \in Workers : Shape(tx'[v])
  BY <1>1 DEF Basic
<1> QED BY <1>2, <1>3, <1>4, <1>5 DEF Basic, Isolation

LEMMA LocalStep ==
  ASSUME Basic, NEW w \in Workers, NEW y, Good(y),
         tx' = [tx EXCEPT ![w] = y], UNCHANGED <<db, requests>>,
         y.del = tx[w].del, y.ins = tx[w].ins, y.request = tx[w].request,
         \A x \in y.seen : x \in tx[w].seen \/ \E t \in TableNames : x \in Visible(w, t),
         Shape(y)
  PROVE  Basic'
<1>1. \A t \in TableNames : Writes(w, y, t, {}, {})
  BY DEF Writes, Unique
<1>2. \A t \in TableNames : \E R, S : Writes(w, y, t, R, S)
  BY <1>1
<1> QED BY <1>2, WriteStep

\* A transaction that begins, or keeps nothing.
LEMMA ClearedTable ==
  ASSUME Basic, NEW w \in Workers, NEW y, tx' = [tx EXCEPT ![w] = y], db' = db,
         NEW t \in TableNames, y.del[t] = {}, y.ins[t] = {}
  PROVE  TableIsolated(t)'
<1>1. tx \in [Workers -> Transaction] /\ tx'[w] = y /\ \A v \in Workers \ {w} : tx'[v] = tx[v]
  BY DEF Basic, TypeOK
<1>2. TableIsolated(t)
  BY DEF Basic, Isolation
<1>3. /\ Owned(w, t)' = {} /\ Visible(w, t)' = db[t]
      /\ \A v \in Workers \ {w} : Owned(v, t)' = Owned(v, t) /\ Visible(v, t)' = Visible(v, t)
  BY <1>1 DEF Owned, Visible
<1> QED BY <1>1, <1>2, <1>3 DEF TableIsolated

LEMMA ClearedBirths ==
  ASSUME Basic, NEW w \in Workers, NEW y,
         tx' = [tx EXCEPT ![w] = y], db' = db, y.seen = {},
         \/ y.request = 0 /\ requests' = requests
         \/ y.request = requests + 1 /\ requests' = requests + 1 /\ requests < MaxRequests
  PROVE  Births' /\ requests' \in 0 .. MaxRequests
<1>1. tx \in [Workers -> Transaction] /\ tx'[w] = y /\ \A v \in Workers \ {w} : tx'[v] = tx[v]
  BY DEF Basic, TypeOK
<1>2. requests' \in 0 .. MaxRequests /\ requests \in Nat /\ requests' \in Nat /\ requests <= requests'
  BY CatalogAssumption DEF Basic, TypeOK
<1>3. \A v \in Workers : tx[v].request \in Nat
  BY DEF Basic, TypeOK, Transaction
<1>4. \A t \in TableNames : \A r \in db[t] : r.born \in Nat
  BY RowsTyped DEF Basic, TypeOK, TablesOK
<1>5. \A v \in Workers : \A x \in tx[v].seen : x.born \in Nat
  BY RowsTyped DEF Basic, TypeOK, Transaction
<1> QED BY <1>1, <1>2, <1>3, <1>4, <1>5 DEF Basic, Isolation, Births, Old

LEMMA ClearedStep ==
  ASSUME Basic, NEW w \in Workers, NEW y, Good(y),
         tx' = [tx EXCEPT ![w] = y], db' = db, y.del = None, y.ins = None, y.seen = {},
         \/ y.request = 0 /\ requests' = requests
         \/ y.request = requests + 1 /\ requests' = requests + 1 /\ requests < MaxRequests,
         Shape(y)
  PROVE  Basic'
<1>1. tx \in [Workers -> Transaction] /\ tx'[w] = y /\ \A v \in Workers \ {w} : tx'[v] = tx[v]
  BY DEF Basic, TypeOK
<1>2. \A t \in TableNames : TableIsolated(t)'
  BY NoneEmpty, ClearedTable
<1>3. Births' /\ requests' \in 0 .. MaxRequests
  BY ClearedBirths
<1>4. TypeOK'
  BY <1>1, <1>3 DEF Basic, TypeOK, Good
<1>5. \A v \in Workers : Shape(tx'[v])
  BY <1>1 DEF Basic
<1> QED BY <1>2, <1>3, <1>4, <1>5 DEF Basic, Isolation

LEMMA CommitStep ==
  ASSUME Basic, NEW w \in Workers, NEW y, Good(y),
         tx' = [tx EXCEPT ![w] = y], db' = Committed(w), requests' = requests,
         y.del = None, y.ins = None, y.seen = {}, y.request = 0, Shape(y)
  PROVE  Basic'
<1>1. tx \in [Workers -> Transaction] /\ tx'[w] = y /\ \A v \in Workers \ {w} : tx'[v] = tx[v]
  BY DEF Basic, TypeOK
<1>2. ASSUME NEW t \in TableNames PROVE TableIsolated(t)'
  BY <1>1, CommitIsolates DEF Basic
<1>3. Births'
  <2>1. \A t \in TableNames : \A r \in db'[t] : Settled(w, r)
    BY VisibleSettled DEF Basic, Committed
  <2>2. \A v \in Workers : tx'[v].request # 0 => v # w /\ tx[v].request # 0
    BY <1>1
  <2>3. \A t \in TableNames : \A r \in db'[t] : Old(r.born)'
    BY <1>1, <2>1, <2>2 DEF Old, Settled
  <2>4. ASSUME NEW v \in Workers
        PROVE  /\ tx'[v].request <= requests
               /\ \A u \in Workers \ {v} : tx'[v].request # 0 => tx'[u].request # tx'[v].request
               /\ \A x \in tx'[v].seen : /\ x.born <= requests
                                         /\ \A u \in Workers \ {v} : tx'[u].request # 0 => tx'[u].request # x.born
    <3>1. CASE v = w
      BY <1>1, <3>1, CatalogAssumption DEF Basic, TypeOK
    <3>2. CASE v # w
      BY <1>1, <2>2, <3>2 DEF Basic, Isolation, Births
    <3> QED BY <3>1, <3>2
  <2> QED BY <2>3, <2>4 DEF Births
<1>4. TypeOK'
  <2>1. db' \in [TableNames -> SUBSET Rows] /\ \A t \in TableNames : db'[t] = Visible(w, t)
    BY DEF Basic, TypeOK, TablesOK, Good, Committed, Visible
  <2>2. TablesOK(db')
    BY <2>1 DEF Basic, TypeOK, TablesOK, Good, Visible
  <2>3. IsFiniteSet(db'["movements"])
    <3>1. "movements" \in TableNames
      BY CatalogAssumption
    <3>2. IsFiniteSet(db["movements"] \ tx[w].del["movements"]) /\ IsFiniteSet(tx[w].ins["movements"])
      BY FS_Difference DEF Basic, TypeOK, Good
    <3>3. IsFiniteSet((db["movements"] \ tx[w].del["movements"]) \cup tx[w].ins["movements"])
      BY <3>2, FS_Union, Zenon
    <3> QED BY <2>1, <3>1, <3>3 DEF Visible
  <2> QED BY <1>1, <2>2, <2>3 DEF Basic, TypeOK, Good
<1>5. \A v \in Workers : Shape(tx'[v])
  BY <1>1 DEF Basic
<1> QED BY <1>2, <1>3, <1>4, <1>5 DEF Basic, Isolation

-----------------------------------------------------------------------------
(* The steps, one by one: what they leave behind.                           *)

\* A row nobody has replaced is nobody else's business.
LEMMA FreeRow ==
  ASSUME Basic, NEW w \in Workers, NEW t \in TableNames,
         NEW r \in Visible(w, t), ~Replaced(w, t, r),
         NEW v \in Workers \ {w}, NEW s \in Owned(v, t)
  PROVE  r.key # s.key
<1> SUFFICES ASSUME r.key = s.key PROVE FALSE
  OBVIOUS
<1>1. TableIsolated(t)
  BY DEF Basic, Isolation
<1>2. r \in db[t]
  BY <1>1 DEF Visible, TableIsolated, Owned
<1>3. ASSUME NEW d \in tx[v].del[t], d.key = r.key PROVE FALSE
  BY <1>1, <1>2, <1>3 DEF TableIsolated, Unique, Replaced, SameRow
<1>4. s \in tx[v].ins[t]
  BY <1>3 DEF Owned
<1>5. s.born = tx[v].request /\ tx[v].request # 0
  BY <1>1, <1>3, <1>4 DEF TableIsolated, SameRow
<1>6. r \in Visible(v, t)
  BY <1>2, <1>3 DEF Visible
<1>7. r = s
  BY <1>1, <1>4, <1>6 DEF TableIsolated, Unique, Visible
<1> QED BY <1>2, <1>5, <1>7 DEF Basic, Isolation, Births, Old

\* The number of a request under way is no key yet, except in its own rows.
LEMMA FreshKey ==
  ASSUME Basic, NEW w \in Workers, tx[w].request # 0, NEW t \in TableNames, t \in Numbered
  PROVE  /\ \A r \in db[t] : r.key # tx[w].request
         /\ \A v \in Workers \ {w} : \A s \in Owned(v, t) : s.key # tx[w].request
<1>1. TableIsolated(t)
  BY DEF Basic, Isolation
<1>2. \A r \in db[t] : r.key # tx[w].request
  BY <1>1 DEF TableIsolated, Basic, Isolation, Births, Old
<1>3. ASSUME NEW v \in Workers \ {w}, NEW s \in tx[v].ins[t], s.key = tx[w].request PROVE FALSE
  <2>1. s.born = tx[w].request
    BY <1>1, <1>3 DEF TableIsolated
  <2>2. CASE s.born = tx[v].request
    BY <2>1, <2>2 DEF Basic, Isolation, Births
  <2>3. CASE \E d \in tx[v].del[t] : SameRow(d, s)
    BY <1>1, <1>2, <2>3, <1>3 DEF TableIsolated, SameRow
  <2> QED BY <1>1, <1>3, <2>2, <2>3 DEF TableIsolated
<1>4. ASSUME NEW v \in Workers \ {w}, NEW s \in tx[v].del[t] PROVE s.key # tx[w].request
  BY <1>1, <1>2 DEF TableIsolated
<1> QED BY <1>2, <1>3, <1>4 DEF Owned

LEMMA TableFacts ==
  /\ \A t \in {"records", "runs", "audit", "movements", "balances", "products"} : t \in TableNames
  /\ \A t \in TableNames : t \in {"records", "runs", "audit", "movements", "balances", "products"}
BY CatalogAssumption

LEMMA FoundVisible ==
  ASSUME NEW w \in Workers
  PROVE  Found(w) \subseteq Visible(w, Table(w))
BY DEF Found, Versions

LEMMA TxGood ==
  ASSUME Basic, NEW w \in Workers
  PROVE  Good(tx[w]) /\ tx[w] \in Transaction /\ Shape(tx[w]) /\ TablesOK(db)
BY DEF Basic, TypeOK

\* Rows a transaction sees are rows of their tables.
LEMMA VisibleTyped ==
  ASSUME Basic, NEW w \in Workers, NEW t \in TableNames
  PROVE  Visible(w, t) \subseteq RowOf[t]
BY TxGood DEF Good, TablesOK, Visible

LEMMA IdleShape ==
  /\ Shape(Idle) /\ Idle.pc = "idle" /\ Idle.request = 0 /\ Idle.run = NoRun /\ Idle.rest = {}
  /\ Idle.product = FixtureId /\ Idle.image = 0 /\ Idle.old = 0 /\ Idle.step = 0
  /\ ~Idle.waiting /\ Idle.seen = {}
<1>1. Idle.pc = "idle" /\ Idle.request = 0 /\ Idle.run = NoRun /\ Idle.rest = {}
  BY DEF Idle
<1>2. Idle.product = FixtureId /\ Idle.image = 0 /\ Idle.old = 0 /\ Idle.step = 0 /\ Idle.waiting = FALSE /\ Idle.seen = {}
  BY DEF Idle, FixtureId
<1>3. \A t \in TableNames : Untouched(Idle, t)
  BY IdleOK, NoneEmpty DEF Untouched
<1>4. Shape(Idle)
  BY <1>1, <1>2, <1>3, TableFacts DEF Shape, IsReset, PlainShape, Keeps, Renewed, Renews, Untouched
<1> QED BY <1>1, <1>2, <1>4

-----------------------------------------------------------------------------
Only(w) == \A v \in Workers \ {w} : tx'[v] = tx[v]
\* The transaction holds nothing.
Bare(x) == x.del = None /\ x.ins = None /\ x.seen = {} /\ x.waiting = FALSE /\ x.step = 0

Rolled(w) == tx' = [tx EXCEPT ![w] = Idle] /\ UNCHANGED <<db, requests>>

LEMMA RolledBasic ==
  ASSUME Basic, NEW w \in Workers, Rolled(w)
  PROVE  Basic' /\ Only(w) /\ tx'[w] = Idle
BY IdleOK, IdleShape, ClearedStep DEF Rolled, Basic, TypeOK, Only

LEMMA BareShape ==
  ASSUME NEW x, Bare(x), x.pc \notin {"delete", "seed", "write"},
         x.pc \notin {"idle", "cleanup", "undo"} => x.request # 0
  PROVE  Shape(x) /\ \A t \in TableNames : Untouched(x, t)
<1>1. \A t \in TableNames : Untouched(x, t)
  BY NoneEmpty DEF Bare, Untouched
<1>2. Keeps(x)
  BY <1>1, TableFacts DEF Keeps, Renewed, Renews, Untouched
<1>3. x.step = 0 /\ ~IsReset(x)
  BY DEF IsReset, Bare
<1> QED BY <1>1, <1>2, <1>3, TableFacts DEF Shape, PlainShape

LEMMA BareReset ==
  ASSUME NEW x, Bare(x), x.pc = "delete", x.request # 0
  PROVE  Shape(x) /\ \A t \in TableNames : Untouched(x, t)
<1>1. \A t \in TableNames : Untouched(x, t)
  BY NoneEmpty DEF Bare, Untouched
<1> QED BY <1>1, TableFacts DEF Shape, IsReset, ResetShape, Untouched, Bare

\* A request begins a transaction with an empty hand.
Began(w) ==
  /\ UNCHANGED db /\ Only(w)
  /\ Bare(tx'[w]) /\ tx'[w].request = requests + 1 /\ requests' = requests + 1

LEMMA BeginStep ==
  ASSUME Basic, NEW w \in Workers, Arrive(w), UNCHANGED db,
         NEW y \in Transaction, tx' = [tx EXCEPT ![w] = y],
         y.pc \in {"create", "mark", "ensure", "delete", "recheck", "store", "image"},
         Bare(y), y.request = requests + 1
  PROVE  Basic' /\ Began(w) /\ tx'[w] = y
<1>0. requests \in Nat /\ requests < MaxRequests /\ requests' = requests + 1 /\ requests + 1 # 0
  BY CatalogAssumption DEF Basic, TypeOK, Arrive
<1>1. Good(y)
  BY NoneOK DEF Good, Bare
<1>2. Shape(y)
  <2>1. CASE y.pc = "delete"
    BY <1>0, <2>1, BareReset
  <2>2. CASE y.pc # "delete"
    BY <1>0, <2>2, BareShape
  <2> QED BY <2>1, <2>2
<1>3. Basic'
  BY <1>0, <1>1, <1>2, ClearedStep DEF Bare
<1>4. tx'[w] = y /\ Only(w)
  BY DEF Basic, TypeOK, Only
<1> QED BY <1>0, <1>3, <1>4 DEF Began

LEMMA RequestTyped ==
  ASSUME Basic, NEW w \in Workers, Arrive(w)
  PROVE  requests + 1 \in Nat
BY CatalogAssumption DEF Basic, TypeOK, Arrive

LEMMA ProductTyped ==
  ASSUME Basic, NEW p \in db.products
  PROVE  p \in ProductRow /\ ProductId(p) \in ProductIds /\ p.image \in Nat
<1>1. p \in ProductRow
  BY TableFacts DEF Basic, TypeOK, TablesOK, RowOf
<1> QED BY <1>1 DEF ProductRow, ProductIds, ProductId

LEMMA RunTyped ==
  ASSUME Basic, NEW run \in db.runs
  PROVE  run \in RunRow /\ run.key \in Nat /\ run.skus \in SUBSET Skus
<1>1. run \in RunRow
  BY TableFacts DEF Basic, TypeOK, TablesOK, RowOf
<1> QED BY <1>1 DEF RunRow

LEMMA CreateBegins ==
  ASSUME Basic, NEW w \in Workers, NEW sku \in Skus, RequestCreate(w, sku)
  PROVE  /\ Basic' /\ Began(w) /\ tx'[w].pc = "create" /\ tx'[w].run = NoRun /\ tx'[w].rest = {sku}
         /\ tx'[w].product = FixtureId /\ tx'[w].old = 0 /\ tx'[w].image = 0
<1> DEFINE y == [Idle EXCEPT !.pc = "create", !.request = requests + 1, !.rest = {sku}]
<1>1. Arrive(w) /\ UNCHANGED db /\ tx' = [tx EXCEPT ![w] = y]
  BY DEF RequestCreate, Becomes
<1>2. {sku} \in SUBSET Skus
  OBVIOUS
<1>3. y \in Transaction
  BY IdleOK, RequestTyped, <1>1, <1>2 DEF Good, Transaction
<1>4. /\ Bare(y) /\ y.request = requests + 1 /\ y.pc = "create" /\ y.run = NoRun /\ y.rest = {sku}
      /\ y.product = FixtureId /\ y.old = 0 /\ y.image = 0
  BY DEF Bare, Idle, FixtureId
<1> HIDE DEF y
<1>5. Basic' /\ Began(w) /\ tx'[w] = y
  BY <1>1, <1>3, <1>4, BeginStep
<1> QED BY <1>4, <1>5

LEMMA ImportBegins ==
  ASSUME Basic, NEW w \in Workers, NEW run \in db.runs, RequestImport(w, run)
  PROVE  /\ Basic' /\ Began(w) /\ tx'[w].pc = (IF run.skus = {} THEN "mark" ELSE "create") /\ tx'[w].run = run.key /\ tx'[w].rest = run.skus
         /\ tx'[w].product = FixtureId /\ tx'[w].old = 0 /\ tx'[w].image = 0
         /\ run.status = "PREVIEW"
<1> DEFINE y == [Idle EXCEPT !.pc = (IF run.skus = {} THEN "mark" ELSE "create"), !.request = requests + 1, !.run = run.key, !.rest = run.skus]
<1>1. Arrive(w) /\ UNCHANGED db /\ tx' = [tx EXCEPT ![w] = y]
  BY DEF RequestImport, Becomes
<1>2. run.key \in Nat /\ run.skus \in SUBSET Skus /\ run.status = "PREVIEW"
  BY RunTyped DEF RequestImport
<1>3. y \in Transaction
  BY IdleOK, RequestTyped, <1>1, <1>2 DEF Good, Transaction
<1>4. /\ Bare(y) /\ y.request = requests + 1 /\ y.pc = (IF run.skus = {} THEN "mark" ELSE "create") /\ y.run = run.key /\ y.rest = run.skus
      /\ y.product = FixtureId /\ y.old = 0 /\ y.image = 0
  BY DEF Bare, Idle, FixtureId
<1> HIDE DEF y
<1>5. Basic' /\ Began(w) /\ tx'[w] = y
  BY <1>1, <1>3, <1>4, BeginStep
<1> QED BY <1>2, <1>4, <1>5

LEMMA AdjustBegins ==
  ASSUME Basic, NEW w \in Workers, NEW p \in db.products, RequestAdjust(w, p)
  PROVE  /\ Basic' /\ Began(w) /\ tx'[w].pc = "ensure" /\ tx'[w].run = NoRun /\ tx'[w].rest = {}
         /\ tx'[w].product = ProductId(p) /\ tx'[w].old = 0 /\ tx'[w].image = 0
<1> DEFINE y == [Idle EXCEPT !.pc = "ensure", !.request = requests + 1, !.product = ProductId(p)]
<1>1. Arrive(w) /\ UNCHANGED db /\ tx' = [tx EXCEPT ![w] = y]
  BY DEF RequestAdjust, Becomes
<1>2. ProductId(p) \in ProductIds
  BY ProductTyped
<1>3. y \in Transaction
  BY IdleOK, RequestTyped, <1>1, <1>2 DEF Good, Transaction
<1>4. /\ Bare(y) /\ y.request = requests + 1 /\ y.pc = "ensure" /\ y.run = NoRun /\ y.rest = {}
      /\ y.product = ProductId(p) /\ y.old = 0 /\ y.image = 0
  BY DEF Bare, Idle, FixtureId
<1> HIDE DEF y
<1>5. Basic' /\ Began(w) /\ tx'[w] = y
  BY <1>1, <1>3, <1>4, BeginStep
<1> QED BY <1>4, <1>5

LEMMA UploadBegins ==
  ASSUME Basic, NEW w \in Workers, NEW p \in db.products, RequestUpload(w, p)
  PROVE  /\ Basic' /\ Began(w) /\ tx'[w].pc = "store" /\ tx'[w].run = NoRun /\ tx'[w].rest = {}
         /\ tx'[w].product = ProductId(p) /\ tx'[w].old = p.image /\ tx'[w].image = 0
<1> DEFINE y == [Idle EXCEPT !.pc = "store", !.request = requests + 1, !.product = ProductId(p), !.old = p.image]
<1>1. Arrive(w) /\ UNCHANGED db /\ tx' = [tx EXCEPT ![w] = y]
  BY DEF RequestUpload, Becomes
<1>2. ProductId(p) \in ProductIds /\ p.image \in Nat
  BY ProductTyped
<1>3. y \in Transaction
  BY IdleOK, RequestTyped, <1>1, <1>2 DEF Good, Transaction
<1>4. /\ Bare(y) /\ y.request = requests + 1 /\ y.pc = "store" /\ y.run = NoRun /\ y.rest = {}
      /\ y.product = ProductId(p) /\ y.old = p.image /\ y.image = 0
  BY DEF Bare, Idle, FixtureId
<1> HIDE DEF y
<1>5. Basic' /\ Began(w) /\ tx'[w] = y
  BY <1>1, <1>3, <1>4, BeginStep
<1> QED BY <1>4, <1>5

LEMMA DeleteImageBegins ==
  ASSUME Basic, NEW w \in Workers, NEW p \in db.products, RequestDeleteImage(w, p)
  PROVE  /\ Basic' /\ Began(w) /\ tx'[w].pc = "image" /\ tx'[w].run = NoRun /\ tx'[w].rest = {}
         /\ tx'[w].product = ProductId(p) /\ tx'[w].old = p.image /\ tx'[w].image = 0
<1> DEFINE y == [Idle EXCEPT !.pc = "image", !.request = requests + 1, !.product = ProductId(p), !.old = p.image]
<1>1. Arrive(w) /\ UNCHANGED db /\ tx' = [tx EXCEPT ![w] = y]
  BY DEF RequestDeleteImage, Becomes
<1>2. ProductId(p) \in ProductIds /\ p.image \in Nat
  BY ProductTyped
<1>3. y \in Transaction
  BY IdleOK, RequestTyped, <1>1, <1>2 DEF Good, Transaction
<1>4. /\ Bare(y) /\ y.request = requests + 1 /\ y.pc = "image" /\ y.run = NoRun /\ y.rest = {}
      /\ y.product = ProductId(p) /\ y.old = p.image /\ y.image = 0
  BY DEF Bare, Idle, FixtureId
<1> HIDE DEF y
<1>5. Basic' /\ Began(w) /\ tx'[w] = y
  BY <1>1, <1>3, <1>4, BeginStep
<1> QED BY <1>4, <1>5

LEMMA ResetBegins ==
  ASSUME Basic, NEW w \in Workers, RequestReset(w)
  PROVE  /\ Basic' /\ Began(w) /\ tx'[w].pc = "delete" /\ tx'[w].run = NoRun /\ tx'[w].rest = {}
         /\ tx'[w].product = FixtureId /\ tx'[w].old = 0 /\ tx'[w].image = 0
<1> DEFINE y == [Idle EXCEPT !.pc = "delete", !.request = requests + 1]
<1>1. Arrive(w) /\ UNCHANGED db /\ tx' = [tx EXCEPT ![w] = y]
  BY DEF RequestReset, Becomes
<1>2. TRUE
  OBVIOUS
<1>3. y \in Transaction
  BY IdleOK, RequestTyped, <1>1, <1>2 DEF Good, Transaction
<1>4. /\ Bare(y) /\ y.request = requests + 1 /\ y.pc = "delete" /\ y.run = NoRun /\ y.rest = {}
      /\ y.product = FixtureId /\ y.old = 0 /\ y.image = 0
  BY DEF Bare, Idle, FixtureId
<1> HIDE DEF y
<1>5. Basic' /\ Began(w) /\ tx'[w] = y
  BY <1>1, <1>3, <1>4, BeginStep
<1> QED BY <1>4, <1>5

LEMMA AutomaticBegins ==
  ASSUME Basic, NEW w \in Workers, RequestAutomatic(w)
  PROVE  /\ Basic' /\ Began(w) /\ tx'[w].pc = "recheck" /\ tx'[w].run = NoRun /\ tx'[w].rest = {}
         /\ tx'[w].product = FixtureId /\ tx'[w].old = 0 /\ tx'[w].image = 0
<1> DEFINE y == [Idle EXCEPT !.pc = "recheck", !.request = requests + 1]
<1>1. Arrive(w) /\ UNCHANGED db /\ tx' = [tx EXCEPT ![w] = y]
  BY DEF RequestAutomatic, Becomes
<1>2. TRUE
  OBVIOUS
<1>3. y \in Transaction
  BY IdleOK, RequestTyped, <1>1, <1>2 DEF Good, Transaction
<1>4. /\ Bare(y) /\ y.request = requests + 1 /\ y.pc = "recheck" /\ y.run = NoRun /\ y.rest = {}
      /\ y.product = FixtureId /\ y.old = 0 /\ y.image = 0
  BY DEF Bare, Idle, FixtureId
<1> HIDE DEF y
<1>5. Basic' /\ Began(w) /\ tx'[w] = y
  BY <1>1, <1>3, <1>4, BeginStep
<1> QED BY <1>4, <1>5

-----------------------------------------------------------------------------

Pcs == {"idle", "create", "mark", "ensure", "lock", "write", "recheck", "delete", "seed", "commit",
        "store", "image", "publish", "cleanup", "undo"}

LEMMA Onward ==
  ASSUME NEW x, Good(x), NEW pc \in Pcs
  PROVE  LET y == [x EXCEPT !.pc = pc] IN
         /\ Good(y) /\ Like(x, y) /\ SameHand(x, y) /\ y.pc = pc
         /\ y.rest = x.rest /\ y.step = x.step /\ y.waiting = x.waiting /\ y.seen = x.seen
<1> DEFINE y == [x EXCEPT !.pc = pc]
<1>1. y \in Transaction
  BY DEF Good, Transaction, Pcs
<1>2. /\ Like(x, y) /\ SameHand(x, y) /\ y.pc = pc
      /\ y.rest = x.rest /\ y.step = x.step /\ y.waiting = x.waiting /\ y.seen = x.seen
  BY DEF Good, Transaction, Like, SameHand
<1> QED BY <1>1, <1>2 DEF Good, SameHand

LEMMA OnwardRest ==
  ASSUME NEW x, Good(x), NEW rest \in SUBSET Skus
  PROVE  LET y == [x EXCEPT !.rest = rest] IN
         /\ Good(y) /\ Like(x, y) /\ SameHand(x, y) /\ y.rest = rest
         /\ y.pc = x.pc /\ y.step = x.step /\ y.waiting = x.waiting /\ y.seen = x.seen
<1> DEFINE y == [x EXCEPT !.rest = rest]
<1>1. y \in Transaction
  BY DEF Good, Transaction
<1>2. /\ Like(x, y) /\ SameHand(x, y) /\ y.rest = rest
      /\ y.pc = x.pc /\ y.step = x.step /\ y.waiting = x.waiting /\ y.seen = x.seen
  BY DEF Good, Transaction, Like, SameHand
<1> QED BY <1>1, <1>2 DEF Good, SameHand

LEMMA OnwardStep ==
  ASSUME NEW x, Good(x), NEW step \in 0 .. 6
  PROVE  LET y == [x EXCEPT !.step = step] IN
         /\ Good(y) /\ Like(x, y) /\ SameHand(x, y) /\ y.step = step
         /\ y.pc = x.pc /\ y.rest = x.rest /\ y.waiting = x.waiting /\ y.seen = x.seen
<1> DEFINE y == [x EXCEPT !.step = step]
<1>1. y \in Transaction
  BY DEF Good, Transaction
<1>2. /\ Like(x, y) /\ SameHand(x, y) /\ y.step = step
      /\ y.pc = x.pc /\ y.rest = x.rest /\ y.waiting = x.waiting /\ y.seen = x.seen
  BY DEF Good, Transaction, Like, SameHand
<1> QED BY <1>1, <1>2 DEF Good, SameHand

LEMMA SameShape ==
  ASSUME NEW x, NEW y, Shape(x), Like(x, y), SameHand(x, y), y.pc = x.pc, y.step = x.step
  PROVE  Shape(y)
<1>1. \A t \in TableNames : Untouched(y, t) <=> Untouched(x, t)
  BY DEF SameHand, Untouched
<1>2. IsReset(y) <=> IsReset(x)
  BY DEF IsReset
<1>3. Keeps(x) <=> Keeps(y)
  BY DEF Keeps, Renewed, SameHand
<1>4. CASE IsReset(x)
  BY <1>2, <1>4 DEF Shape, ResetShape, Like, SameHand
<1>5. CASE ~IsReset(x)
  BY <1>1, <1>2, <1>3, <1>5, TableFacts DEF Shape, PlainShape, Like, SameHand
<1> QED BY <1>4, <1>5

LEMMA DeleteStep ==
  ASSUME Basic, NEW w \in Workers, tx[w].pc = "delete"
  PROVE  ResetShape(tx[w]) /\ tx[w].step \in 0 .. 5 /\ Table(w) = Deleted[tx[w].step + 1]
<1>1. ResetShape(tx[w])
  BY TxGood DEF Shape, IsReset
<1>2. tx[w].step \in 0 .. 6
  BY TxGood DEF Transaction
<1> QED BY <1>1, <1>2 DEF ResetShape, Table

LEMMA TableNamed ==
  ASSUME Basic, NEW w \in Workers
  PROVE  Table(w) \in TableNames
<1>1. CASE tx[w].pc = "delete"
  BY <1>1, DeleteStep, TableFacts DEF Deleted
<1>2. CASE tx[w].pc # "delete"
  BY <1>2, TableFacts DEF Table
<1> QED BY <1>1, <1>2

LEMMA RollBackRolled ==
  ASSUME NEW w \in Workers, RollBack(w)
  PROVE  Rolled(w)
BY DEF RollBack, Becomes, Rolled

\* Waiting for a row changes nothing but what the transaction remembers.
LEMMA WaitEffect ==
  ASSUME Basic, NEW w \in Workers, Wait(w)
  PROVE  /\ Basic' /\ Only(w) /\ UNCHANGED <<db, requests, files, lost>>
         /\ Like(tx[w], tx'[w]) /\ SameHand(tx[w], tx'[w])
         /\ tx'[w].pc = tx[w].pc /\ tx'[w].rest = tx[w].rest /\ tx'[w].step = tx[w].step
         /\ ~tx[w].waiting /\ tx'[w].waiting
         /\ tx'[w].seen = {r \in Visible(w, Table(w)) : Where(w, r)}
         /\ tx[w].pc \in {"delete", "mark", "lock", "ensure", "write", "image"}
<1> DEFINE y == [tx[w] EXCEPT !.waiting = TRUE, !.seen = Target(w)]
<1>1. /\ tx' = [tx EXCEPT ![w] = y] /\ UNCHANGED <<db, requests, files, lost>> /\ ~tx[w].waiting
      /\ tx[w].pc \in {"delete", "mark", "lock", "ensure", "write", "image"}
  BY DEF Wait, Becomes, Unchanged
<1>2. Target(w) = {r \in Visible(w, Table(w)) : Where(w, r)}
  BY <1>1 DEF Target, Seen
<1>3. Table(w) \in TableNames
  BY TableNamed
<1>4. Target(w) \subseteq Rows
  BY <1>2, <1>3, VisibleTyped DEF Rows
<1>5. y \in Transaction
  BY ZenonT(40), <1>4, TxGood DEF Transaction
<1>6. /\ Like(tx[w], y) /\ SameHand(tx[w], y)
      /\ y.pc = tx[w].pc /\ y.rest = tx[w].rest /\ y.step = tx[w].step
      /\ y.waiting = TRUE /\ y.seen = Target(w)
  BY TxGood DEF Transaction, Like, SameHand
<1> HIDE DEF y
<1>7. Good(y) /\ Shape(y)
  BY <1>5, <1>6, TxGood, SameShape DEF Good, SameHand
<1>8. Basic'
  BY <1>1, <1>2, <1>3, <1>6, <1>7, LocalStep DEF Like, SameHand
<1>9. tx'[w] = y /\ Only(w)
  BY <1>1 DEF Basic, TypeOK, Only
<1> QED BY <1>1, <1>2, <1>6, <1>8, <1>9

-----------------------------------------------------------------------------

LEMMA PutWrites ==
  ASSUME NEW w \in Workers, NEW t \in TableNames, NEW y, NEW R, NEW S,
         Handles(tx[w], y, t, R, S), Writes(w, y, t, R, S)
  PROVE  \A u \in TableNames : \E Q, P : Writes(w, y, u, Q, P)
<1>1. ASSUME NEW u \in TableNames, u # t PROVE Writes(w, y, u, {}, {})
  BY <1>1 DEF Handles, Writes, Unique
<1> QED BY <1>1

\* Replaced rows stay replaced.
LEMMA PutKeeps ==
  ASSUME NEW x, NEW y, NEW t \in TableNames, NEW R, NEW S, Handles(x, y, t, R, S),
         Renewed(x), Renews(R, S)
  PROVE  Renewed(y)
<1>0. (\A r \in R : \E s \in S : SameRow(s, r))
      /\ \A u \in TableNames : \A r \in x.del[u] : \E s \in x.ins[u] : SameRow(s, r)
  BY DEF Renewed, Renews
<1>1. ASSUME NEW r \in y.del[t] PROVE \E s \in y.ins[t] : SameRow(s, r)
  <2>1. CASE r \in R
    BY <1>0, <2>1 DEF Handles
  <2>2. CASE r \in x.del[t]
    <3>1. PICK s \in x.ins[t] : SameRow(s, r)
      BY <1>0, <2>2
    <3>2. CASE s \in R
      <4>1. PICK q \in S : SameRow(q, s)
        BY <1>0, <3>2
      <4> QED BY <3>1, <4>1 DEF Handles, SameRow
    <3> QED BY <3>1, <3>2 DEF Handles
  <2> QED BY <2>1, <2>2 DEF Handles
<1>2. ASSUME NEW u \in TableNames, u # t, NEW r \in y.del[u] PROVE \E s \in y.ins[u] : SameRow(s, r)
  BY <1>0, <1>2 DEF Handles
<1> QED BY <1>1, <1>2 DEF Renewed, Renews

Moved(w) ==
  /\ Basic' /\ Only(w) /\ UNCHANGED <<db, requests>>
  /\ Like(tx[w], tx'[w]) /\ tx'[w].step = tx[w].step
  /\ Ready(tx'[w])

\* The leaf all the statements share.
LEMMA MovedBy ==
  ASSUME Basic, NEW w \in Workers, NEW y, Good(y), tx' = [tx EXCEPT ![w] = y], UNCHANGED <<db, requests>>,
         Like(tx[w], y), y.step = tx[w].step, Ready(y),
         \A u \in TableNames : \E Q, P : Writes(w, y, u, Q, P),
         Shape(y)
  PROVE  Moved(w) /\ tx'[w] = y
<1>1. Basic'
  BY WriteStep DEF Like, Ready
<1> QED BY <1>1 DEF Moved, Only, Basic, TypeOK

LEMMA InsertEffect ==
  ASSUME Basic, NEW w \in Workers, NEW sku, InsertProduct(w, sku)
  PROVE  /\ tx[w].pc = "create" /\ sku \in tx[w].rest /\ UNCHANGED <<files, lost>>
         /\ \/ Rolled(w)
            \/ /\ Moved(w)
               /\ Handles(tx[w], tx'[w], "products", {},
                          {Product(sku, tx[w].request, tx[w].request, tx[w].run, 0)})
               /\ tx'[w].rest = tx[w].rest \ {sku}
               /\ tx'[w].pc = (CASE tx'[w].rest # {} -> "create"
                                 [] tx'[w].rest = {} /\ tx[w].run = NoRun -> "commit" [] OTHER -> "mark")
               /\ \A r \in Visible(w, "products") : r.key # sku
               /\ ~Contested(w, "products", sku)
<1> DEFINE x == tx[w]
           rest == x.rest \ {sku}
           next == CASE rest # {} -> "create" [] rest = {} /\ x.run = NoRun -> "commit" [] OTHER -> "mark"
           S == {Product(sku, x.request, x.request, x.run, 0)}
           z == Put(x, "products", {}, S)
           q == [z EXCEPT !.rest = rest]
           y == [q EXCEPT !.pc = next]
<1>1. x.pc = "create" /\ sku \in x.rest /\ ~Contested(w, "products", sku)
  BY DEF InsertProduct
<1>2. CASE WithKey(w, "products", sku) = {}
  <2>1. tx' = [tx EXCEPT ![w] = y] /\ UNCHANGED <<db, requests, files, lost>>
    BY <1>2 DEF InsertProduct, Goes, Becomes, Unchanged
  <2>2. x.request \in Nat /\ x.run \in Nat \cup {NoRun} /\ x.rest \subseteq Skus /\ Good(x) /\ TablesOK(db) /\ Shape(x)
    BY TxGood DEF Transaction
  <2>3. S \in SUBSET RowOf["products"] /\ "products" \in TableNames /\ rest \in SUBSET Skus /\ next \in Pcs
    BY <1>1, <2>2, TableFacts DEF RowOf, ProductRow, Product, Pcs
  <2>4. Good(z) /\ Handles(x, z, "products", {}, S) /\ Like(x, z) /\ Stays(x, z) /\ Ready(z)
    <3> HIDE DEF S, x
    <3>1. "products" \in TableNames /\ RowsOf("products", S) /\ Good(x) /\ TablesOK(db)
      BY <2>2, <2>3 DEF RowsOf
    <3> QED BY <3>1, PutOK
  <2> HIDE DEF z, next
  <2>5. /\ Good(q) /\ Like(z, q) /\ SameHand(z, q) /\ q.rest = rest
        /\ q.pc = z.pc /\ q.step = z.step /\ q.waiting = z.waiting /\ q.seen = z.seen
    BY <2>3, <2>4, OnwardRest
  <2> HIDE DEF q
  <2>6. /\ Good(y) /\ Like(q, y) /\ SameHand(q, y) /\ y.pc = next
        /\ y.rest = q.rest /\ y.step = q.step /\ y.waiting = q.waiting /\ y.seen = q.seen
    BY <2>3, <2>5, Onward
  <2> HIDE DEF y, S
  <2>7. /\ Like(x, y) /\ Handles(x, y, "products", {}, S)
        /\ y.step = x.step /\ Ready(y) /\ y.rest = rest
    BY <2>4, <2>5, <2>6 DEF Like, SameHand, Handles, Stays, Ready
  <2>8. PlainShape(x) /\ x.request # 0
    BY <1>1, <2>2 DEF Shape, IsReset, ResetShape, PlainShape
  <2>9. \A r \in Visible(w, "products") : r.key # sku
    BY <1>2 DEF WithKey
  <2>10. \A u \in TableNames : \E Q, P : Writes(w, y, u, Q, P)
    <3>1. \A r \in {} \cup S : \A v \in Workers \ {w} : \A s \in Owned(v, "products") : r.key # s.key
      BY <1>1 DEF Contested, Owned, S, Product
    <3>2. Unique(S) /\ \A s \in S : s.born = x.request /\ s.born # 0 /\ s.key = sku
      BY <2>8 DEF Unique, S, Product
    <3>3. "products" \notin Numbered
      BY DEF Numbered
    <3>4. \A s \in S : s.born = x.request /\ s.born # 0 /\ \A r \in Visible(w, "products") \ {} : r.key # s.key
      BY <2>9, <3>2
    <3>5. Handles(tx[w], y, "products", {}, S) /\ "products" \in TableNames
      BY <2>3, <2>7
    <3>6. Writes(w, y, "products", {}, S)
      BY <3>1, <3>2, <3>3, <3>4, <3>5 DEF Handles, Writes
    <3> QED BY <3>5, <3>6, PutWrites
  <2>11. Shape(y)
    <3>1. \A u \in TableNames : y.del[u] = x.del[u] /\ x.ins[u] \subseteq y.ins[u]
      BY <2>7 DEF Handles
    <3>2. Keeps(y)
      BY <2>8, <3>1, TableFacts DEF PlainShape, Keeps, Renewed, Renews
    <3>3. \A u \in TableNames \ {"products"} : Untouched(x, u) => Untouched(y, u)
      BY <2>7 DEF Handles, Untouched
    <3>4. next \in {"create", "mark", "commit"} /\ y.step = 0 /\ y.request # 0
      BY <2>7, <2>8 DEF next, PlainShape, Like
    <3>5. \A t \in {"records", "audit", "movements", "runs", "balances"} : Untouched(y, t)
      BY <1>1, <2>8, <3>3, TableFacts DEF PlainShape
    <3>6. ~IsReset(y) /\ y.pc \in {"create", "mark", "commit"}
      BY <2>6, <3>4 DEF IsReset
    <3>7. PlainShape(y)
      BY <3>2, <3>4, <3>5, <3>6 DEF PlainShape
    <3> QED BY <3>6, <3>7 DEF Shape
  <2>12. Moved(w) /\ tx'[w] = y
    BY <2>1, <2>6, <2>7, <2>10, <2>11, MovedBy
  <2>13. next = (CASE tx'[w].rest # {} -> "create"
                  [] tx'[w].rest = {} /\ tx[w].run = NoRun -> "commit" [] OTHER -> "mark")
    BY <2>7, <2>12 DEF next
  <2> QED BY <1>1, <2>1, <2>6, <2>7, <2>9, <2>12, <2>13 DEF S
<1>3. CASE WithKey(w, "products", sku) # {}
  <2>1. RollBack(w)
    BY <1>3 DEF InsertProduct
  <2> QED BY <1>1, <2>1, RollBackRolled DEF RollBack
<1> QED BY <1>2, <1>3

-----------------------------------------------------------------------------
LEMMA PutGoes ==
  ASSUME NEW x, Good(x), NEW t \in TableNames, TablesOK(db), NEW R, NEW S, RowsOf(t, S), NEW pc \in Pcs
  PROVE  LET y == [Put(x, t, R, S) EXCEPT !.pc = pc] IN
         /\ Good(y) /\ Handles(x, y, t, R, S) /\ Like(x, y) /\ Ready(y)
         /\ y.pc = pc /\ y.rest = x.rest /\ y.step = x.step
<1> DEFINE z == Put(x, t, R, S)
           y == [z EXCEPT !.pc = pc]
<1>1. Good(z) /\ Handles(x, z, t, R, S) /\ Like(x, z) /\ Stays(x, z) /\ Ready(z)
  BY PutOK
<1> HIDE DEF z
<1>2. /\ Good(y) /\ Like(z, y) /\ SameHand(z, y) /\ y.pc = pc
      /\ y.rest = z.rest /\ y.step = z.step /\ y.waiting = z.waiting /\ y.seen = z.seen
  BY <1>1, Onward
<1> HIDE DEF y
<1>3. Handles(x, y, t, R, S) /\ Like(x, y) /\ Ready(y) /\ y.rest = x.rest /\ y.step = x.step
  BY <1>1, <1>2 DEF Handles, Like, SameHand, Ready, Stays
<1>4. Good(y) /\ y.pc = pc
  BY <1>2
<1> QED BY <1>3, <1>4 DEF y, z

Answer(w) == {[key |-> tx[w].request, born |-> tx[w].request]}

\* The stored answer of a command is a row of its own.
LEMMA AnsweredOK ==
  ASSUME Basic, NEW w \in Workers, tx[w].request # 0, tx[w].ins["records"] = {},
         NEW z, Good(z), Like(tx[w], z),
         z.del["records"] = tx[w].del["records"], z.ins["records"] = tx[w].ins["records"]
  PROVE  LET y == Answered(z) IN
         /\ Good(y) /\ Like(z, y) /\ Stays(z, y) /\ Ready(y)
         /\ Handles(z, y, "records", {}, Answer(w))
         /\ \E Q, P : Writes(w, y, "records", Q, P)
<1> DEFINE y == Answered(z)
<1>1. y = Put(z, "records", {}, Answer(w))
  BY DEF Answered, Answer, Like
<1>2. "records" \in TableNames /\ "records" \in Numbered /\ TablesOK(db) /\ tx[w].request \in Nat
  BY TableFacts, TxGood DEF Numbered, Transaction
<1>3. RowsOf("records", Answer(w))
  BY <1>2 DEF RowsOf, Answer, RowOf, Entry
<1>4. Good(y) /\ Handles(z, y, "records", {}, Answer(w)) /\ Like(z, y) /\ Stays(z, y) /\ Ready(y)
  BY <1>1, <1>2, <1>3, PutOK
<1>5. Writes(w, y, "records", {}, Answer(w))
  <2>1. \A r \in Visible(w, "records") : r.key # tx[w].request
    BY <1>2, FreshKey DEF Visible
  <2>2. \A v \in Workers \ {w} : \A s \in Owned(v, "records") : s.key # tx[w].request
    BY <1>2, FreshKey
  <2>3. \A s \in Answer(w) : s.key = tx[w].request /\ s.born = tx[w].request
    BY DEF Answer
  <2>4. Unique(Answer(w))
    BY DEF Answer, Unique
  <2> HIDE DEF y
  <2> QED BY <1>2, <1>4, <2>1, <2>2, <2>3, <2>4 DEF Writes, Handles
<1> QED BY <1>4, <1>5

LEMMA WritesCarry ==
  ASSUME NEW w, NEW y, NEW z, NEW u, NEW R, NEW S, Writes(w, z, u, R, S),
         y.del[u] = z.del[u], y.ins[u] = z.ins[u]
  PROVE  Writes(w, y, u, R, S)
BY DEF Writes

\* A row of which a transaction has its own version is its own.
LEMMA OwnKey ==
  ASSUME Basic, NEW w \in Workers, NEW t \in TableNames, NEW r \in Owned(w, t)
  PROVE  \A v \in Workers \ {w} : \A s \in Owned(v, t) : r.key # s.key
BY DEF Basic, Isolation, TableIsolated

\* What a statement finds is its own once it goes on.
LEMMA FoundFree ==
  ASSUME Basic, NEW w \in Workers, ~Blocked(w), tx[w].pc \notin {"ensure", "write"}
  PROVE  \A r \in Found(w) : /\ r \in Visible(w, Table(w)) /\ Where(w, r)
                             /\ \A v \in Workers \ {w} : \A s \in Owned(v, Table(w)) : r.key # s.key
<1> TAKE r \in Found(w)
<1>1. r \in Visible(w, Table(w)) /\ Where(w, r)
  BY DEF Found, Versions
<1>2. ~Replaced(w, Table(w), r)
  BY DEF Blocked
<1> QED BY <1>1, <1>2, TableNamed, FreeRow

Marked(w) == {[r EXCEPT !.status = "COMMITTED"] : r \in Found(w)}

LEMMA MarkEffect ==
  ASSUME Basic, NEW w \in Workers, MarkCommitted(w)
  PROVE  /\ tx[w].pc = "mark" /\ UNCHANGED <<files, lost>>
         /\ \/ Rolled(w)
            \/ /\ Moved(w) /\ tx'[w].pc = "commit" /\ tx'[w].rest = tx[w].rest
               /\ Found(w) # {}
               /\ \A r \in Found(w) : r \in db["runs"] /\ r.key = tx[w].run /\ r \in RunRow
               /\ \E z : /\ Handles(tx[w], z, "runs", Found(w), Marked(w))
                         /\ Handles(z, tx'[w], "records", {}, Answer(w))
<1> DEFINE x == tx[w]
           z == Put(x, "runs", Found(w), Marked(w))
           q == Answered(z)
           y == [q EXCEPT !.pc = "commit"]
<1>1. x.pc = "mark" /\ ~Blocked(w)
  BY DEF MarkCommitted, Granted
<1>2. CASE Found(w) = {}
  BY <1>1, <1>2, RollBackRolled DEF MarkCommitted, RunGone, RollBack
<1>3. CASE Found(w) # {}
  <2>1. tx' = [tx EXCEPT ![w] = y] /\ UNCHANGED <<db, requests, files, lost>>
    BY <1>3 DEF MarkCommitted, RunGone, Goes, Becomes, Unchanged, Marked
  <2>2. Good(x) /\ TablesOK(db) /\ "runs" \in TableNames /\ "records" \in TableNames /\ Table(w) = "runs"
    BY <1>1, TxGood, TableFacts DEF Table
  <2>3. PlainShape(x) /\ x.request # 0 /\ Untouched(x, "runs") /\ Untouched(x, "records")
    BY <1>1, TxGood DEF Shape, IsReset, ResetShape, PlainShape
  <2>4. \A r \in Found(w) : r \in db["runs"] /\ r \in Visible(w, "runs") /\ r.key = x.run /\ r \in RunRow
    BY <1>1, <2>2, <2>3, FoundFree DEF Where, Visible, Untouched, TablesOK, RowOf
  <2>5. \A r \in Found(w) : \A v \in Workers \ {w} : \A s \in Owned(v, "runs") : r.key # s.key
    BY <1>1, <2>2, FoundFree
  <2>6. \A s \in Marked(w) : s \in RunRow /\ s.status = "COMMITTED" /\ \E r \in Found(w) : SameRow(r, s) /\ s.skus = r.skus
    BY <2>4 DEF Marked, RunRow, SameRow
  <2>7. \A r \in Found(w) : \E s \in Marked(w) : SameRow(s, r) /\ s.skus = r.skus /\ s.status = "COMMITTED"
    <3> TAKE r \in Found(w)
    <3> DEFINE s == [r EXCEPT !.status = "COMMITTED"]
    <3>1. s \in Marked(w) /\ r \in RunRow
      BY <2>4 DEF Marked
    <3>2. SameRow(s, r) /\ s.skus = r.skus /\ s.status = "COMMITTED"
      BY <3>1 DEF RunRow, SameRow
    <3> QED BY <3>1, <3>2
  <2>8. RowsOf("runs", Marked(w))
    BY <2>2, <2>6 DEF RowsOf, RowOf
  <2>9. Good(z) /\ Handles(x, z, "runs", Found(w), Marked(w)) /\ Like(x, z) /\ Stays(x, z) /\ Ready(z)
    BY <2>2, <2>8, PutOK
  <2>10. Writes(w, z, "runs", Found(w), Marked(w))
    <3>1. TableIsolated("runs")
      BY <2>2 DEF Basic, Isolation
    <3>2. Unique(Marked(w))
      <4>1. \A r, s \in Found(w) : r = s
        BY <2>4, <3>1 DEF TableIsolated, Unique
      <4> QED BY <4>1 DEF Marked, Unique
    <3>3. Found(w) \subseteq Visible(w, "runs")
      BY <2>4
    <3>4. \A r \in Found(w) \cup Marked(w) : \A v \in Workers \ {w} : \A s \in Owned(v, "runs") : r.key # s.key
      BY <2>5, <2>6 DEF SameRow
    <3>5. "runs" \in Numbered /\ \A s \in Marked(w) : s.key \in {0, s.born}
      BY <2>4, <2>6, <3>1 DEF Numbered, TableIsolated, SameRow
    <3> HIDE DEF z
    <3> QED BY <2>2, <2>6, <2>9, <3>2, <3>3, <3>4, <3>5 DEF Writes, Handles
  <2> HIDE DEF z
  <2>11. /\ z.del["records"] = x.del["records"] /\ z.ins["records"] = x.ins["records"] /\ x.ins["records"] = {}
    BY <2>2, <2>3, <2>9 DEF Handles, Untouched
  <2>12. /\ Good(q) /\ Like(z, q) /\ Stays(z, q) /\ Ready(q) /\ Handles(z, q, "records", {}, Answer(w))
         /\ \E Q, P : Writes(w, q, "records", Q, P)
    BY <2>3, <2>9, <2>11, AnsweredOK
  <2> HIDE DEF q
  <2>13. /\ Good(y) /\ Like(q, y) /\ SameHand(q, y) /\ y.pc = "commit"
         /\ y.rest = q.rest /\ y.step = q.step /\ y.waiting = q.waiting /\ y.seen = q.seen
    BY <2>12, Onward DEF Pcs
  <2> HIDE DEF y
  <2>14. /\ Like(x, y) /\ Ready(y) /\ y.rest = x.rest /\ y.step = x.step
         /\ Handles(z, y, "records", {}, Answer(w))
    BY <2>9, <2>12, <2>13 DEF Like, SameHand, Handles, Ready, Stays
  <2>15. \A u \in TableNames : \E Q, P : Writes(w, y, u, Q, P)
    <3>1. \E Q, P : Writes(w, y, "records", Q, P)
      BY <2>12, <2>13, WritesCarry DEF SameHand
    <3>2. Writes(w, y, "runs", Found(w), Marked(w))
      BY <2>2, <2>10, <2>14, WritesCarry DEF Handles
    <3>3. ASSUME NEW u \in TableNames, u # "runs", u # "records" PROVE Writes(w, y, u, {}, {})
      BY <2>9, <2>14, <3>3 DEF Handles, Writes, Unique
    <3> QED BY <3>1, <3>2, <3>3
  <2>16. Shape(y)
    <3>1. Renewed(y)
      <4>1. Renews(Found(w), Marked(w)) /\ Renews({}, Answer(w))
        BY <2>7 DEF Renews
      <4>2. Renewed(z)
        BY <2>2, <2>3, <2>9, <4>1, PutKeeps DEF PlainShape, Keeps
      <4> QED BY <2>2, <2>14, <4>1, <4>2, PutKeeps
    <3>2. \A u \in TableNames \ {"runs", "records"} : y.del[u] = x.del[u] /\ y.ins[u] = x.ins[u]
      BY ZenonT(40), <2>9, <2>14 DEF Handles
    <3>3. \A r \in y.del["runs"] : \E s \in y.ins["runs"] :
             SameRow(s, r) /\ s.skus = r.skus /\ s.status = "COMMITTED"
      BY <2>2, <2>3, <2>7, <2>9, <2>14 DEF Handles, Untouched
    <3>4. y.del["records"] = {}
      BY <2>2, <2>3, <2>9, <2>14 DEF Handles, Untouched
    <3>5. Keeps(y)
      <4>1. /\ y.del["products"] = x.del["products"] /\ y.ins["products"] = x.ins["products"]
            /\ \A t \in {"audit", "movements"} : y.del[t] = x.del[t]
        BY <3>2, TableFacts
      <4> QED BY <2>3, <3>1, <3>3, <3>4, <4>1 DEF PlainShape, Keeps
    <3>6. y.step = 0 /\ y.request # 0 /\ ~IsReset(y)
      <4>1. y.step = 0 /\ y.request # 0
        BY <2>3, <2>14 DEF PlainShape, Like
      <4> QED BY <2>13, <4>1 DEF IsReset
    <3>7. PlainShape(y)
      BY <2>13, <3>5, <3>6 DEF PlainShape
    <3> QED BY <3>6, <3>7 DEF Shape
  <2>17. Moved(w) /\ tx'[w] = y
    BY <2>1, <2>13, <2>14, <2>15, <2>16, MovedBy
  <2> QED BY <1>1, <1>3, <2>1, <2>4, <2>9, <2>13, <2>14, <2>17
<1> QED BY <1>2, <1>3

-----------------------------------------------------------------------------
NewBalance(w) == {[key |-> tx[w].product, born |-> tx[w].request, onHand |-> 0]}

HasKey(S, key) == \E s \in S : s.key = key

\* Plain transactions whose balances alone changed.
LEMMA BalanceShape ==
  ASSUME Basic, NEW w \in Workers, PlainShape(tx[w]), tx[w].request # 0,
         tx[w].pc \in {"ensure", "lock"},
         NEW y, NEW R, NEW S, Handles(tx[w], y, "balances", R, S), Like(tx[w], y), y.step = tx[w].step,
         Renews(R, S),
         y.pc = "lock" \/ (y.pc = "write" /\ HasKey(S, y.product))
  PROVE  Shape(y)
<1> DEFINE x == tx[w]
<1>1. "balances" \in TableNames /\ \A t \in {"records", "audit", "movements", "runs", "products"} : Untouched(x, t)
  BY TableFacts DEF PlainShape
<1>2. ASSUME NEW t \in {"records", "audit", "movements", "runs", "products"} PROVE Untouched(y, t)
  <2>1. t \in TableNames /\ t # "balances" /\ Untouched(x, t)
    BY <1>1, TableFacts
  <2> QED BY <2>1 DEF Handles, Untouched
<1>3. Renewed(y)
  BY <1>1, PutKeeps DEF PlainShape, Keeps
<1>4. Keeps(y)
  BY <1>2, <1>3 DEF Keeps, Untouched
<1>5. y.pc = "write" => \E b \in y.ins["balances"] : b.key = y.product
  BY <1>1 DEF Handles, HasKey
<1>6. y.step = 0 /\ y.request # 0 /\ y.pc \in {"lock", "write"}
  BY DEF PlainShape, Like
<1>7. PlainShape(y)
  BY <1>2, <1>4, <1>5, <1>6 DEF PlainShape
<1> QED BY <1>6, <1>7 DEF Shape, IsReset

LEMMA EnsureEffect ==
  ASSUME Basic, NEW w \in Workers, EnsureBalance(w)
  PROVE  /\ tx[w].pc = "ensure" /\ UNCHANGED <<files, lost>>
         /\ \/ Rolled(w)
            \/ /\ Moved(w) /\ tx'[w].pc = "lock" /\ tx'[w].rest = tx[w].rest
               /\ \/ SameHand(tx[w], tx'[w])
                  \/ /\ Handles(tx[w], tx'[w], "balances", {}, NewBalance(w))
                     /\ \A b \in Visible(w, "balances") : b.key # tx[w].product
                     /\ \E p \in db["products"] : ProductId(p) = tx[w].product /\ ~Removed(w, p)
<1> DEFINE x == tx[w]
<1>1. x.pc = "ensure"
  BY DEF EnsureBalance
<1>2. /\ Good(x) /\ TablesOK(db) /\ "balances" \in TableNames /\ "products" \in TableNames
      /\ Table(w) = "products" /\ x.product \in ProductIds /\ x.request \in Nat
  BY <1>1, TxGood, TableFacts DEF Table, Transaction
<1>3. PlainShape(x) /\ x.request # 0 /\ Untouched(x, "products")
  BY <1>1, TxGood DEF Shape, IsReset, ResetShape, PlainShape
<1>4. CASE WithKey(w, "balances", x.product) # {}
  <2> DEFINE z == [x EXCEPT !.waiting = FALSE, !.seen = {}]
             y == [z EXCEPT !.pc = "lock"]
  <2>1. tx' = [tx EXCEPT ![w] = y] /\ UNCHANGED <<db, requests, files, lost>>
    BY <1>4 DEF EnsureBalance, Goes, Becomes, Unchanged
  <2>2. Good(z) /\ Like(x, z) /\ SameHand(x, z) /\ Stays(x, z) /\ Ready(z)
    <3>1. z \in Transaction
      BY <1>2 DEF Good, Transaction
    <3> QED BY <1>2, <3>1 DEF Good, Transaction, Like, SameHand, Stays, Ready
  <2> HIDE DEF z
  <2>3. /\ Good(y) /\ Like(z, y) /\ SameHand(z, y) /\ y.pc = "lock"
        /\ y.rest = z.rest /\ y.step = z.step /\ y.waiting = z.waiting /\ y.seen = z.seen
    BY <2>2, Onward DEF Pcs
  <2> HIDE DEF y
  <2>4. Like(x, y) /\ SameHand(x, y) /\ y.rest = x.rest /\ y.step = x.step /\ Ready(y)
    BY <2>2, <2>3 DEF Like, SameHand, Stays, Ready
  <2>5. Handles(x, y, "balances", {}, {})
    BY <2>4 DEF Handles, SameHand
  <2>6. Shape(y)
    <3>1. Renews({}, {})
      BY DEF Renews
    <3> QED BY <1>1, <1>3, <2>3, <2>4, <2>5, <3>1, BalanceShape
  <2>7. \A u \in TableNames : Writes(w, y, u, {}, {})
    BY <2>4 DEF Writes, SameHand, Unique
  <2>8. Moved(w) /\ tx'[w] = y
    BY <2>1, <2>3, <2>4, <2>6, <2>7, MovedBy
  <2> QED BY <1>1, <2>1, <2>3, <2>4, <2>8
<1>5. CASE WithKey(w, "balances", x.product) = {} /\ Found(w) # {}
  <2> DEFINE y == [Put(x, "balances", {}, NewBalance(w)) EXCEPT !.pc = "lock"]
  <2>1. /\ tx' = [tx EXCEPT ![w] = y] /\ UNCHANGED <<db, requests, files, lost>>
        /\ ~Blocked(w) /\ ~Contested(w, "balances", x.product)
    BY <1>5 DEF EnsureBalance, Goes, Becomes, Unchanged, NewBalance
  <2>2. RowsOf("balances", NewBalance(w))
    BY <1>2 DEF RowsOf, RowOf, BalanceRow, NewBalance
  <2>3. /\ Good(y) /\ Handles(x, y, "balances", {}, NewBalance(w)) /\ Like(x, y) /\ Ready(y)
        /\ y.pc = "lock" /\ y.rest = x.rest /\ y.step = x.step
    <3>1. "lock" \in Pcs
      BY DEF Pcs
    <3> QED BY <1>2, <2>2, <3>1, PutGoes
  <2> HIDE DEF y
  <2>4. \A b \in Visible(w, "balances") : b.key # x.product
    BY <1>5 DEF WithKey
  <2>5. Writes(w, y, "balances", {}, NewBalance(w))
    <3>1. \A s \in NewBalance(w) : s.key = x.product /\ s.born = x.request
      BY DEF NewBalance
    <3>2. Unique(NewBalance(w)) /\ "balances" \notin Numbered
      BY DEF NewBalance, Unique, Numbered
    <3>3. \A v \in Workers \ {w} : \A s \in Owned(v, "balances") : s.key # x.product
      BY <2>1 DEF Contested, Owned
    <3> QED BY <1>2, <1>3, <2>3, <2>4, <3>1, <3>2, <3>3 DEF Writes, Handles
  <2>6. Shape(y)
    <3>1. Renews({}, NewBalance(w))
      BY DEF Renews
    <3> QED BY <1>1, <1>3, <2>3, <3>1, BalanceShape
  <2>7. Moved(w) /\ tx'[w] = y
    BY <1>2, <2>1, <2>3, <2>5, <2>6, PutWrites, MovedBy
  <2>8. \E p \in db["products"] : ProductId(p) = x.product /\ ~Removed(w, p)
    <3>1. PICK p \in Found(w) : TRUE
      BY <1>5
    <3>2. p \in Visible(w, "products") /\ ProductId(p) = x.product
      BY <1>1, <1>2, <3>1 DEF Found, Versions, Where
    <3>3. ~Removed(w, p)
      BY <1>1, <2>1, <3>1 DEF Blocked
    <3> QED BY <1>3, <3>2, <3>3 DEF Visible, Untouched
  <2> QED BY <1>1, <2>1, <2>3, <2>4, <2>7, <2>8
<1>6. CASE WithKey(w, "balances", x.product) = {} /\ Found(w) = {}
  BY <1>1, <1>6, RollBackRolled DEF EnsureBalance, RollBack
<1> QED BY <1>4, <1>5, <1>6

LEMMA LockEffect ==
  ASSUME Basic, NEW w \in Workers, LockBalance(w)
  PROVE  /\ tx[w].pc = "lock" /\ UNCHANGED <<files, lost>>
         /\ \/ Rolled(w)
            \/ /\ Moved(w) /\ tx'[w].pc = "write" /\ tx'[w].rest = tx[w].rest
               /\ Handles(tx[w], tx'[w], "balances", Found(w), Found(w))
               /\ Found(w) # {}
               /\ \A r \in Found(w) : r \in Visible(w, "balances") /\ r.key = tx[w].product
<1> DEFINE x == tx[w]
<1>1. x.pc = "lock" /\ ~Blocked(w)
  BY DEF LockBalance, Granted
<1>2. /\ Good(x) /\ TablesOK(db) /\ "balances" \in TableNames /\ Table(w) = "balances"
  BY <1>1, TxGood, TableFacts DEF Table
<1>3. PlainShape(x) /\ x.request # 0
  BY <1>1, TxGood DEF Shape, IsReset, ResetShape, PlainShape
<1>4. CASE Found(w) = {}
  BY <1>1, <1>4, RollBackRolled DEF LockBalance, RollBack
<1>5. CASE Found(w) # {}
  <2> DEFINE y == [Put(x, "balances", Found(w), Found(w)) EXCEPT !.pc = "write"]
  <2>1. tx' = [tx EXCEPT ![w] = y] /\ UNCHANGED <<db, requests, files, lost>>
    BY <1>5 DEF LockBalance, Goes, Becomes, Unchanged
  <2>2. \A r \in Found(w) : /\ r \in Visible(w, "balances") /\ r.key = x.product
                            /\ \A v \in Workers \ {w} : \A s \in Owned(v, "balances") : r.key # s.key
    BY <1>1, <1>2, FoundFree DEF Where
  <2>3. RowsOf("balances", Found(w))
    BY <1>2, <2>2, VisibleTyped DEF RowsOf
  <2>4. /\ Good(y) /\ Handles(x, y, "balances", Found(w), Found(w)) /\ Like(x, y) /\ Ready(y)
        /\ y.pc = "write" /\ y.rest = x.rest /\ y.step = x.step
    <3>1. "write" \in Pcs
      BY DEF Pcs
    <3> QED BY <1>2, <2>3, <3>1, PutGoes
  <2> HIDE DEF y
  <2>5. Writes(w, y, "balances", Found(w), Found(w))
    <3>1. TableIsolated("balances")
      BY <1>2 DEF Basic, Isolation
    <3>2. Unique(Found(w)) /\ "balances" \notin Numbered /\ Found(w) \subseteq Visible(w, "balances")
      BY <2>2, <3>1 DEF TableIsolated, Unique, Numbered
    <3> QED BY <1>2, <2>2, <2>4, <3>2 DEF Writes, Handles, SameRow
  <2>6. Shape(y)
    <3>1. HasKey(Found(w), y.product)
      BY <1>5, <2>2, <2>4 DEF Like, HasKey
    <3>2. Renews(Found(w), Found(w))
      BY DEF SameRow, Renews
    <3> QED BY <1>1, <1>3, <2>4, <3>1, <3>2, BalanceShape
  <2>7. Moved(w) /\ tx'[w] = y
    BY <1>2, <2>1, <2>4, <2>5, <2>6, PutWrites, MovedBy
  <2> QED BY <1>1, <1>5, <2>1, <2>2, <2>4, <2>7
<1> QED BY <1>4, <1>5

-----------------------------------------------------------------------------
Movement(w) == {[key |-> tx[w].request, born |-> tx[w].request, product |-> tx[w].product]}

LEMMA StockEffect ==
  ASSUME Basic, NEW w \in Workers, WriteStock(w)
  PROVE  /\ tx[w].pc = "write" /\ UNCHANGED <<files, lost>>
         /\ \/ Rolled(w)
            \/ /\ Moved(w) /\ tx'[w].pc = "commit" /\ tx'[w].rest = tx[w].rest
               /\ \E p \in db["products"] : ProductId(p) = tx[w].product /\ ~Removed(w, p)
               /\ \E b \in tx[w].ins["balances"] :
                    /\ b.key = tx[w].product /\ b \in BalanceRow
                    /\ \A c \in Visible(w, "balances") : c.key = b.key => c = b
                    /\ \E z, q :
                         /\ Handles(tx[w], z, "balances", {b}, {[b EXCEPT !.onHand = @ + 1]})
                         /\ Handles(z, q, "movements", {}, Movement(w))
                         /\ Handles(q, tx'[w], "records", {}, Answer(w))
<1> DEFINE x == tx[w]
<1>1. x.pc = "write" /\ ~Blocked(w)
  BY DEF WriteStock, Granted
<1>2. /\ Good(x) /\ TablesOK(db) /\ "balances" \in TableNames /\ "products" \in TableNames
      /\ "movements" \in TableNames /\ "records" \in TableNames
      /\ Table(w) = "products" /\ x.product \in ProductIds /\ x.request \in Nat
  BY <1>1, TxGood, TableFacts DEF Table, Transaction
<1>3. PlainShape(x) /\ x.request # 0
  BY <1>1, TxGood DEF Shape, IsReset, ResetShape, PlainShape
<1>4. \A t \in {"records", "audit", "movements", "runs", "products"} : Untouched(x, t)
  BY <1>1, <1>3 DEF PlainShape
<1>5. CASE Found(w) = {}
  BY <1>1, <1>5, RollBackRolled DEF WriteStock, RollBack
<1>6. CASE Found(w) # {}
  <2>1. PICK b \in x.ins["balances"] : b.key = x.product
    BY <1>1, <1>3 DEF PlainShape
  <2>2. b \in BalanceRow /\ b \in Visible(w, "balances") /\ b \in Owned(w, "balances")
    BY <1>2, <2>1 DEF Good, TablesOK, RowOf, Visible, Owned
  <2>3. \A c \in Visible(w, "balances") : c.key = b.key => c = b
    BY <1>2, <2>2 DEF Basic, Isolation, TableIsolated, Unique
  <2>4. WithKey(w, "balances", x.product) = {b}
    BY <2>1, <2>2, <2>3 DEF WithKey
  <2> DEFINE n == [b EXCEPT !.onHand = @ + 1]
             z == Put(x, "balances", {b}, {n})
             q == Put(z, "movements", {}, Movement(w))
             r == Answered(q)
             y == [r EXCEPT !.pc = "commit"]
  <2>5. tx' = [tx EXCEPT ![w] = y] /\ UNCHANGED <<db, requests, files, lost>>
    <3>1. {[c EXCEPT !.onHand = @ + 1] : c \in {b}} = {n}
      OBVIOUS
    <3> QED BY <1>6, <2>4, <3>1 DEF WriteStock, Goes, Becomes, Unchanged, Movement
  <2>6. n \in BalanceRow /\ SameRow(n, b) /\ SameRow(b, n) /\ n.key = x.product
    BY <2>1, <2>2 DEF BalanceRow, SameRow
  <2> HIDE DEF n
  <2>7. RowsOf("balances", {n}) /\ RowsOf("movements", Movement(w))
    <3>1. IsFiniteSet(Movement(w))
      BY FS_Singleton DEF Movement
    <3> QED BY <1>2, <2>6, <3>1 DEF RowsOf, RowOf, Movement, MovementRow
  <2>8. Good(z) /\ Handles(x, z, "balances", {b}, {n}) /\ Like(x, z) /\ Stays(x, z) /\ Ready(z)
    BY <1>2, <2>7, PutOK
  <2> HIDE DEF z
  <2>9. Good(q) /\ Handles(z, q, "movements", {}, Movement(w)) /\ Like(z, q) /\ Stays(z, q) /\ Ready(q)
    BY <1>2, <2>7, <2>8, PutOK
  <2> HIDE DEF q
  <2>10. /\ q.del["records"] = x.del["records"] /\ q.ins["records"] = x.ins["records"] /\ x.ins["records"] = {}
    BY <1>2, <1>4, <2>8, <2>9 DEF Handles, Untouched
  <2>11. Like(x, q) /\ Stays(x, q)
    BY <2>8, <2>9 DEF Like, Stays
  <2>12. /\ Good(r) /\ Like(q, r) /\ Stays(q, r) /\ Ready(r) /\ Handles(q, r, "records", {}, Answer(w))
         /\ \E Q, P : Writes(w, r, "records", Q, P)
    BY <1>3, <2>9, <2>10, <2>11, AnsweredOK
  <2> HIDE DEF r
  <2>13. /\ Good(y) /\ Like(r, y) /\ SameHand(r, y) /\ y.pc = "commit"
         /\ y.rest = r.rest /\ y.step = r.step /\ y.waiting = r.waiting /\ y.seen = r.seen
    BY <2>12, Onward DEF Pcs
  <2> HIDE DEF y
  <2>14. /\ Like(x, y) /\ Ready(y) /\ y.rest = x.rest /\ y.step = x.step
         /\ Handles(q, y, "records", {}, Answer(w))
    BY <2>11, <2>12, <2>13 DEF Like, SameHand, Handles, Ready, Stays
  <2>15. \A u \in TableNames : \E Q, P : Writes(w, y, u, Q, P)
    <3>1. \E Q, P : Writes(w, y, "records", Q, P)
      BY <2>12, <2>13, WritesCarry DEF SameHand
    <3>2. Writes(w, y, "balances", {b}, {n})
      <4>1. \A v \in Workers \ {w} : \A s \in Owned(v, "balances") : b.key # s.key
        BY <1>2, <2>2, OwnKey
      <4>2. Unique({n}) /\ "balances" \notin Numbered
        BY DEF Unique, Numbered
      <4>3. y.del["balances"] = x.del["balances"] \cup ({b} \cap db["balances"])
            /\ y.ins["balances"] = (x.ins["balances"] \ {b}) \cup {n}
        BY <1>2, <2>8, <2>9, <2>14 DEF Handles
      <4> QED BY <2>2, <2>6, <4>1, <4>2, <4>3 DEF Writes, SameRow
    <3>3. Writes(w, y, "movements", {}, Movement(w))
      <4>1. \A m \in Movement(w) : m.key = x.request /\ m.born = x.request
        BY DEF Movement
      <4>2. Unique(Movement(w)) /\ "movements" \in Numbered
        BY DEF Unique, Movement, Numbered
      <4>3. \A m \in Visible(w, "movements") : m.key # x.request
        BY <1>2, <1>3, <1>4, <4>2, FreshKey DEF Visible, Untouched
      <4>4. \A v \in Workers \ {w} : \A s \in Owned(v, "movements") : s.key # x.request
        BY <1>2, <1>3, <4>2, FreshKey
      <4>5. y.del["movements"] = x.del["movements"]
            /\ y.ins["movements"] = x.ins["movements"] \cup Movement(w)
        <5>1. z.del["movements"] = x.del["movements"] /\ z.ins["movements"] = x.ins["movements"]
          BY <1>2, <2>8 DEF Handles
        <5>2. /\ q.del["movements"] = z.del["movements"] \cup ({} \cap db["movements"])
              /\ q.ins["movements"] = (z.ins["movements"] \ {}) \cup Movement(w)
          BY <1>2, <2>9 DEF Handles
        <5>3. y.del["movements"] = q.del["movements"] /\ y.ins["movements"] = q.ins["movements"]
          BY <1>2, <2>14 DEF Handles
        <5> QED BY <5>1, <5>2, <5>3
      <4> QED BY <1>3, <4>1, <4>2, <4>3, <4>4, <4>5 DEF Writes
    <3>4. ASSUME NEW u \in TableNames, u \notin {"balances", "movements", "records"} PROVE Writes(w, y, u, {}, {})
      BY ZenonT(40), <2>8, <2>9, <2>14, <3>4 DEF Handles, Writes, Unique
    <3> QED BY <3>1, <3>2, <3>3, <3>4
  <2>16. Shape(y)
    <3>1. Renewed(y)
      <4>1. Renews({b}, {n}) /\ Renews({}, Movement(w)) /\ Renews({}, Answer(w))
        BY <2>6 DEF Renews
      <4>2. Renewed(z)
        BY <1>2, <1>3, <2>8, <4>1, PutKeeps DEF PlainShape, Keeps
      <4>3. Renewed(q)
        BY <1>2, <2>9, <4>1, <4>2, PutKeeps
      <4> QED BY <1>2, <2>14, <4>1, <4>3, PutKeeps
    <3>2. ASSUME NEW t \in {"audit", "runs", "products"} PROVE Untouched(y, t)
      <4>1. t \in TableNames /\ t \notin {"balances", "movements", "records"} /\ Untouched(x, t)
        BY <1>4, TableFacts
      <4> QED BY <2>8, <2>9, <2>14, <4>1 DEF Handles, Untouched
    <3>3. y.del["movements"] = {} /\ y.del["records"] = {}
      BY <1>2, <1>4, <2>8, <2>9, <2>14 DEF Handles, Untouched
    <3>4. Keeps(y)
      BY <3>1, <3>2, <3>3 DEF Keeps, Untouched
    <3>5. y.step = 0 /\ y.request # 0
      BY <1>3, <2>14 DEF PlainShape, Like
    <3>6. ~IsReset(y)
      BY <2>13, <3>5 DEF IsReset
    <3>7. PlainShape(y)
      BY <2>13, <3>2, <3>4, <3>5 DEF PlainShape
    <3> QED BY <3>6, <3>7 DEF Shape
  <2>17. Moved(w) /\ tx'[w] = y
    BY <2>5, <2>13, <2>14, <2>15, <2>16, MovedBy
  <2>18. \E p \in db["products"] : ProductId(p) = x.product /\ ~Removed(w, p)
    <3>1. PICK p \in Found(w) : TRUE
      BY <1>6
    <3>2. p \in Visible(w, "products") /\ ProductId(p) = x.product
      BY <1>1, <1>2, <3>1 DEF Found, Versions, Where
    <3>3. ~Removed(w, p)
      BY <1>1, <3>1 DEF Blocked
    <3> QED BY <1>4, <3>2, <3>3 DEF Visible, Untouched
  <2>19. \E z0, q0 : /\ Handles(tx[w], z0, "balances", {b}, {[b EXCEPT !.onHand = @ + 1]})
                     /\ Handles(z0, q0, "movements", {}, Movement(w))
                     /\ Handles(q0, tx'[w], "records", {}, Answer(w))
    BY <2>8, <2>9, <2>14, <2>17 DEF n
  <2>20. Moved(w) /\ tx'[w].pc = "commit" /\ tx'[w].rest = tx[w].rest
    BY <2>13, <2>14, <2>17
  <2>21. \E b0 \in tx[w].ins["balances"] :
                    /\ b0.key = tx[w].product /\ b0 \in BalanceRow
                    /\ \A c \in Visible(w, "balances") : c.key = b0.key => c = b0
                    /\ \E z0, q0 :
                         /\ Handles(tx[w], z0, "balances", {b0}, {[b0 EXCEPT !.onHand = @ + 1]})
                         /\ Handles(z0, q0, "movements", {}, Movement(w))
                         /\ Handles(q0, tx'[w], "records", {}, Answer(w))
    BY <2>1, <2>2, <2>3, <2>19
  <2> QED BY <1>1, <2>5, <2>18, <2>20, <2>21
<1> QED BY <1>5, <1>6

-----------------------------------------------------------------------------
LEMMA RecheckEffect ==
  ASSUME Basic, NEW w \in Workers, Recheck(w)
  PROVE  /\ tx[w].pc = "recheck" /\ UNCHANGED <<files, lost>>
         /\ \/ Rolled(w)
            \/ /\ Basic' /\ Only(w) /\ UNCHANGED <<db, requests>> /\ Like(tx[w], tx'[w])
               /\ SameHand(tx[w], tx'[w]) /\ tx'[w].pc = "delete" /\ tx'[w].step = 0
               /\ tx'[w].rest = tx[w].rest /\ tx'[w].waiting = tx[w].waiting
               /\ \A t \in TableNames : tx[w].del[t] = {} /\ tx[w].ins[t] = {}
<1> DEFINE x == tx[w]
           y == [x EXCEPT !.pc = "delete"]
<1>1. x.pc = "recheck" /\ UNCHANGED <<db, requests, files, lost>>
  BY DEF Recheck
<1>2. CASE tx' = [tx EXCEPT ![w] = Idle]
  BY <1>1, <1>2 DEF Rolled
<1>3. CASE tx' = [tx EXCEPT ![w] = y]
  <2>1. Good(x) /\ PlainShape(x) /\ x.request # 0 /\ x.step = 0
    BY <1>1, TxGood DEF Shape, IsReset, ResetShape, PlainShape
  <2>2. \A t \in TableNames : Untouched(x, t)
    BY <1>1, <2>1, TableFacts DEF PlainShape
  <2>3. /\ Good(y) /\ Like(x, y) /\ SameHand(x, y) /\ y.pc = "delete"
        /\ y.rest = x.rest /\ y.step = x.step /\ y.waiting = x.waiting /\ y.seen = x.seen
    BY <2>1, Onward DEF Pcs
  <2> HIDE DEF y
  <2>4. ResetShape(y)
    <3>1. \A t \in TableNames : y.ins[t] = {} /\ y.del[t] = {}
      BY <2>2, <2>3 DEF SameHand, Untouched
    <3> QED BY <2>1, <2>3, <3>1, TableFacts DEF ResetShape, Like
  <2>5. Shape(y)
    BY <2>3, <2>4 DEF Shape, IsReset
  <2>6. Basic'
    BY <1>1, <1>3, <2>3, <2>5, LocalStep DEF Like, SameHand
  <2>7. tx'[w] = y /\ Only(w)
    BY <1>3 DEF Basic, TypeOK, Only
  <2> QED BY <1>1, <2>1, <2>2, <2>3, <2>6, <2>7 DEF Untouched
<1> QED BY <1>2, <1>3 DEF Recheck, Becomes

Removes(w, t, R) ==
  /\ Handles(tx[w], tx'[w], t, R, {})
  /\ R = Found(w) /\ t = Table(w) /\ R \subseteq db[t]

LEMMA DeleteEffect ==
  ASSUME Basic, NEW w \in Workers, DeleteTable(w)
  PROVE  /\ tx[w].pc = "delete" /\ UNCHANGED <<files, lost>>
         /\ \/ Rolled(w)
            \/ /\ Basic' /\ Only(w) /\ UNCHANGED <<db, requests>> /\ Like(tx[w], tx'[w])
               /\ tx'[w].waiting = FALSE /\ tx'[w].rest = tx[w].rest
               /\ tx'[w].step = tx[w].step + 1
               /\ tx'[w].pc = (IF tx[w].step = 5 THEN "seed" ELSE "delete")
               /\ Removes(w, Table(w), Found(w))
               /\ ~Blocked(w)
               /\ tx[w].step = 5 => ~Restricted(w, Found(w))
<1> DEFINE x == tx[w]
           t == Table(w)
           pc == IF x.step + 1 = Len(Deleted) THEN "seed" ELSE "delete"
           z == Put(x, t, Found(w), {})
           q == [z EXCEPT !.step = x.step + 1]
           y == [q EXCEPT !.pc = pc]
<1>1. x.pc = "delete" /\ ~Blocked(w)
  BY DEF DeleteTable, Granted
<1>2. Good(x) /\ TablesOK(db) /\ ResetShape(x) /\ x.step \in 0 .. 5 /\ t \in TableNames /\ t = Deleted[x.step + 1]
  BY <1>1, TxGood, DeleteStep, TableNamed
<1>3. pc = (IF x.step = 5 THEN "seed" ELSE "delete") /\ (t = "products" <=> x.step = 5)
  <2>1. Len(Deleted) = 6
    BY DEF Deleted
  <2>2. x.step \in {0, 1, 2, 3, 4, 5}
    BY <1>2
  <2> QED BY <1>2, <2>1, <2>2 DEF Deleted
<1>4. CASE t = "products" /\ Restricted(w, Found(w))
  BY <1>1, <1>4, RollBackRolled DEF DeleteTable, RollBack
<1>5. CASE ~(t = "products" /\ Restricted(w, Found(w)))
  <2>1. tx' = [tx EXCEPT ![w] = y] /\ UNCHANGED <<db, requests, files, lost>>
    BY <1>5 DEF DeleteTable, Goes, Becomes, Unchanged
  <2> HIDE DEF t
  <2>2. \A u \in TableNames : x.ins[u] = {}
    BY <1>1, <1>2 DEF ResetShape
  <2>3. Found(w) \subseteq db[t] /\ Found(w) \subseteq Visible(w, t)
    BY <1>2, <2>2 DEF Found, Versions, Visible, t
  <2>4. \A r \in Found(w) : \A v \in Workers \ {w} : \A s \in Owned(v, t) : r.key # s.key
    BY <1>1, FoundFree DEF t
  <2>5. RowsOf(t, {})
    BY FS_EmptySet DEF RowsOf
  <2>6. Good(z) /\ Handles(x, z, t, Found(w), {}) /\ Like(x, z) /\ Stays(x, z) /\ Ready(z)
    BY <1>2, <2>5, PutOK
  <2> HIDE DEF z, pc
  <2>7. x.step + 1 \in 0 .. 6
    BY <1>2
  <2>8. /\ Good(q) /\ Like(z, q) /\ SameHand(z, q) /\ q.step = x.step + 1
        /\ q.pc = z.pc /\ q.rest = z.rest /\ q.waiting = z.waiting /\ q.seen = z.seen
    BY <2>6, <2>7, OnwardStep
  <2> HIDE DEF q
  <2>9. /\ Good(y) /\ Like(q, y) /\ SameHand(q, y) /\ y.pc = pc
        /\ y.rest = q.rest /\ y.step = q.step /\ y.waiting = q.waiting /\ y.seen = q.seen
    <3>1. pc \in Pcs
      BY <1>3 DEF Pcs
    <3> QED BY <2>8, <3>1, Onward
  <2> HIDE DEF y
  <2>10. Like(x, y) /\ y.rest = x.rest /\ y.step = x.step + 1 /\ Ready(y) /\ Handles(x, y, t, Found(w), {})
    BY ZenonT(40), <2>6, <2>8, <2>9 DEF Like, SameHand, Stays, Ready, Handles
  <2>11. Writes(w, y, t, Found(w), {})
    BY <1>2, <2>3, <2>4, <2>10 DEF Writes, Handles, Unique
  <2>12. Shape(y)
    <3>1. \A u \in TableNames : y.ins[u] = {}
      BY <2>2, <2>10 DEF Handles
    <3>2. x.step # 5 => y.del["products"] = {}
      <4>1. x.del["products"] = {} /\ "products" \in TableNames
        BY <1>2, TableFacts DEF ResetShape
      <4>2. x.step # 5 => y.del["products"] = x.del["products"] \cup {}
        BY <1>3, <2>10, <4>1 DEF Handles
      <4> QED BY <4>1, <4>2
    <3>2a. y.step < 5 => y.del["balances"] = {}
      <4>1. "balances" \in TableNames
        BY TableFacts
      <4>2. CASE x.step < 4
        <5>1. x.step \in {0, 1, 2, 3}
          BY <1>2, <4>2
        <5>2. t # "balances" /\ x.del["balances"] = {}
          BY <1>2, <5>1 DEF Deleted, ResetShape
        <5> QED BY <2>10, <4>1, <5>2 DEF Handles
      <4> QED BY <1>2, <2>10, <4>2
    <3>3. /\ y.step < 6 <=> x.step # 5
          /\ y.pc = IF x.step = 5 THEN "seed" ELSE "delete"
      BY <1>2, <1>3, <2>9, <2>10
    <3>4. y.request # 0
      BY <1>2, <2>10 DEF ResetShape, Like
    <3>5. ResetShape(y)
      BY <3>1, <3>2, <3>2a, <3>3, <3>4 DEF ResetShape
    <3> QED BY <3>3, <3>5 DEF Shape, IsReset
  <2>13. Basic'
    <3>1. \A u \in TableNames : \E Q, P : Writes(w, y, u, Q, P)
      BY <1>2, <2>10, <2>11, PutWrites
    <3> QED BY <2>1, <2>9, <2>10, <2>12, <3>1, WriteStep DEF Like, Ready
  <2>14. tx'[w] = y /\ Only(w)
    BY <2>1 DEF Basic, TypeOK, Only
  <2>15. Removes(w, Table(w), Found(w))
    BY <2>3, <2>10, <2>14 DEF Removes, t
  <2>16. y.waiting = FALSE
    BY <2>10 DEF Ready
  <2>17. x.step = 5 => ~Restricted(w, Found(w))
    BY <1>3, <1>5
  <2> QED BY <1>1, <1>3, <2>1, <2>9, <2>10, <2>13, <2>14, <2>15, <2>16, <2>17
<1> QED BY <1>4, <1>5

-----------------------------------------------------------------------------
\* Seeding: every fixture row, and the answer unless the reset was automatic.
LEMMA FixtureFacts ==
  ASSUME NEW n \in Nat
  PROVE  /\ \A t \in TableNames : Fixture(n)[t] \subseteq RowOf[t] /\ Unique(Fixture(n)[t])
         /\ \A t \in TableNames : \A r \in Fixture(n)[t] : r.born = n
         /\ \A t \in TableNames : t \in Numbered => \A r \in Fixture(n)[t] : r.key = 0
         /\ Fixture(n)["records"] = {}
         /\ Fixture(n)["products"] = {Product(FixtureSku, 0, n, NoRun, 0)}
         /\ Fixture(n)["balances"] = {[key |-> FixtureId, born |-> n, onHand |-> 1]}
         /\ Fixture(n)["movements"] = {[key |-> 0, born |-> n, product |-> FixtureId]}
         /\ Fixture(n)["runs"] = {Run(0, n, "PREVIEW", {PreviewSku})}
         /\ Fixture(n)["audit"] = {[key |-> 0, born |-> n]}
<1>1. /\ Fixture(n)["records"] = {}
      /\ Fixture(n)["products"] = {Product(FixtureSku, 0, n, NoRun, 0)}
      /\ Fixture(n)["balances"] = {[key |-> FixtureId, born |-> n, onHand |-> 1]}
      /\ Fixture(n)["movements"] = {[key |-> 0, born |-> n, product |-> FixtureId]}
      /\ Fixture(n)["runs"] = {Run(0, n, "PREVIEW", {PreviewSku})}
      /\ Fixture(n)["audit"] = {[key |-> 0, born |-> n]}
  BY DEF Fixture
<1>2. FixtureSku \in Skus /\ PreviewSku \in Skus /\ FixtureId \in ProductIds
  BY DEF Skus, ProductIds, FixtureId
<1>3. /\ Product(FixtureSku, 0, n, NoRun, 0) \in ProductRow
      /\ [key |-> FixtureId, born |-> n, onHand |-> 1] \in BalanceRow
      /\ [key |-> 0, born |-> n, product |-> FixtureId] \in MovementRow
      /\ Run(0, n, "PREVIEW", {PreviewSku}) \in RunRow
      /\ [key |-> 0, born |-> n] \in Entry
  BY <1>2 DEF Product, ProductRow, BalanceRow, MovementRow, Run, RunRow, Entry
<1>4. ASSUME NEW t \in TableNames
      PROVE  /\ Fixture(n)[t] \subseteq RowOf[t] /\ Unique(Fixture(n)[t])
             /\ \A r \in Fixture(n)[t] : r.born = n
             /\ t \in Numbered => \A r \in Fixture(n)[t] : r.key = 0
  <2>1. CASE t = "records"
    BY <1>1, <2>1 DEF Unique
  <2>2. CASE t = "products"
    BY <1>1, <1>3, <2>2 DEF Unique, RowOf, Product, Numbered
  <2>3. CASE t = "balances"
    BY <1>1, <1>3, <2>3 DEF Unique, RowOf, Numbered
  <2>4. CASE t = "movements"
    BY <1>1, <1>3, <2>4 DEF Unique, RowOf
  <2>5. CASE t = "runs"
    <3>1. Run(0, n, "PREVIEW", {PreviewSku}).key = 0 /\ Run(0, n, "PREVIEW", {PreviewSku}).born = n
      BY DEF Run
    <3> QED BY <1>1, <1>3, <2>5, <3>1 DEF Unique, RowOf
  <2>6. CASE t = "audit"
    BY <1>1, <1>3, <2>6 DEF Unique, RowOf
  <2> QED BY <2>1, <2>2, <2>3, <2>4, <2>5, <2>6, TableFacts
<1> QED BY <1>1, <1>4

LEMMA SeedEffect ==
  ASSUME Basic, NEW w \in Workers, Seed(w)
  PROVE  /\ tx[w].pc = "seed" /\ UNCHANGED <<files, lost>>
         /\ \/ Rolled(w)
            \/ /\ Basic' /\ Only(w) /\ UNCHANGED <<db, requests>> /\ Like(tx[w], tx'[w])
               /\ tx'[w].rest = tx[w].rest /\ tx'[w].step = tx[w].step /\ tx'[w].pc = "commit"
               /\ tx'[w].del = tx[w].del
               /\ \A t \in TableNames : tx[w].ins[t] = {}
               /\ \A t \in TableNames \ {"records"} : tx'[w].ins[t] = Fixture(tx[w].request)[t]
               /\ ~Clashes(w)
<1> DEFINE x == tx[w]
           rows == Fixture(x.request)
           z == [x EXCEPT !.ins = [t \in TableNames |-> x.ins[t] \cup rows[t]]]
           r == Answered(z)
           q == IF resetLock = w THEN z ELSE r
           y == [q EXCEPT !.pc = "commit"]
<1>1. x.pc = "seed" /\ \A t \in TableNames : \A f \in rows[t] : ~Contested(w, t, f.key)
  BY DEF Seed
<1>2. Good(x) /\ TablesOK(db) /\ ResetShape(x) /\ x.request \in Nat /\ x.request # 0 /\ x.step = 6
  <2>1. Good(x) /\ TablesOK(db) /\ ResetShape(x) /\ x.request \in Nat /\ x.step \in 0 .. 6
    BY <1>1, TxGood DEF Shape, IsReset, Transaction
  <2>2. ~ (x.step < 6) /\ x.request # 0
    BY <1>1, <2>1 DEF ResetShape
  <2> QED BY <2>1, <2>2
<1>3. \A t \in TableNames : x.ins[t] = {}
  BY <1>1, <1>2 DEF ResetShape
<1>4. CASE Clashes(w)
  BY <1>1, <1>4, RollBackRolled DEF Seed, RollBack
<1>5. CASE ~Clashes(w)
  <2>1. tx' = [tx EXCEPT ![w] = y] /\ UNCHANGED <<db, requests, files, lost>>
    BY <1>5 DEF Seed, Goes, Becomes, Unchanged
  <2>2. /\ \A t \in TableNames : rows[t] \subseteq RowOf[t] /\ Unique(rows[t])
        /\ \A t \in TableNames : \A f \in rows[t] : f.born = x.request
        /\ \A t \in TableNames : t \in Numbered => \A f \in rows[t] : f.key = 0
        /\ rows["records"] = {}
        /\ rows["movements"] = {[key |-> 0, born |-> x.request, product |-> FixtureId]}
    BY <1>2, FixtureFacts
  <2> HIDE DEF rows
  <2>3. \A t \in TableNames : z.ins[t] = rows[t]
    BY <1>2, <1>3 DEF Good, Transaction
  <2>4. z.del = x.del /\ Like(x, z) /\ Stays(x, z) /\ z.waiting = x.waiting /\ z.seen = x.seen
    BY <1>2 DEF Good, Transaction, Like, Stays
  <2>5. Good(z)
    <3> DEFINE i == [t \in TableNames |-> x.ins[t] \cup rows[t]]
    <3>1. i \in [TableNames -> SUBSET Rows] /\ \A t \in TableNames : i[t] = rows[t]
      BY <1>3, <2>2 DEF Rows
    <3>2. TablesOK(i)
      BY <2>2, <3>1 DEF TablesOK
    <3>3. IsFiniteSet(i["movements"])
      <4>1. IsFiniteSet({[key |-> 0, born |-> x.request, product |-> FixtureId]})
        BY FS_Singleton
      <4> QED BY <2>2, <3>1, <4>1, TableFacts
    <3> HIDE DEF i
    <3>4. z = [x EXCEPT !.ins = i]
      BY DEF i
    <3>5. z \in Transaction /\ z.ins = i /\ z.del = x.del
      BY <1>2, <3>1, <3>4 DEF Good, Transaction
    <3> QED BY <1>2, <3>2, <3>3, <3>5 DEF Good
  <2> HIDE DEF z
  <2>6. z.ins["records"] = x.ins["records"] /\ x.ins["records"] = {} /\ "records" \in TableNames
    BY <1>3, <2>2, <2>3, TableFacts
  <2>7. /\ Good(r) /\ Like(z, r) /\ Stays(z, r) /\ Ready(r) /\ Handles(z, r, "records", {}, Answer(w))
        /\ \E Q, P : Writes(w, r, "records", Q, P)
    BY <1>2, <2>4, <2>5, <2>6, AnsweredOK
  <2> HIDE DEF r
  <2>8. Good(q) /\ Like(x, q) /\ Stays(x, q) /\ (Ready(q) \/ (q.waiting = x.waiting /\ q.seen = x.seen))
    BY <2>4, <2>5, <2>7 DEF Like, Stays
  <2>9. \E Q, P : Writes(w, q, "records", Q, P)
    <3>1. Writes(w, z, "records", {}, {})
      BY <2>4, <2>6 DEF Writes, Unique
    <3> QED BY <2>7, <3>1
  <2>10. /\ \A t \in TableNames : q.del[t] = x.del[t]
         /\ \A t \in TableNames \ {"records"} : q.ins[t] = rows[t]
    BY <2>3, <2>4, <2>7 DEF Handles
  <2>10a. q.del = x.del
    <3>1. q.del \in [TableNames -> SUBSET Rows] /\ x.del \in [TableNames -> SUBSET Rows]
      BY <1>2, <2>8 DEF Good, TablesOK
    <3> QED BY <2>10, <3>1
  <2> HIDE DEF q
  <2>11. /\ Good(y) /\ Like(q, y) /\ SameHand(q, y) /\ y.pc = "commit"
         /\ y.rest = q.rest /\ y.step = q.step /\ y.waiting = q.waiting /\ y.seen = q.seen
    BY <2>8, Onward DEF Pcs
  <2> HIDE DEF y
  <2>12. /\ Like(x, y) /\ y.rest = x.rest /\ y.step = x.step /\ (y.seen = {} \/ y.seen = x.seen)
         /\ y.del = x.del
         /\ \A t \in TableNames \ {"records"} : y.ins[t] = rows[t]
    BY <2>8, <2>10, <2>10a, <2>11 DEF Like, SameHand, Ready, Stays
  <2>13. \A u \in TableNames : \E Q, P : Writes(w, y, u, Q, P)
    <3>1. \E Q, P : Writes(w, y, "records", Q, P)
      BY <2>9, <2>11, WritesCarry DEF SameHand
    <3>2. ASSUME NEW u \in TableNames, u # "records" PROVE Writes(w, y, u, {}, rows[u])
      <4>1. y.ins[u] = rows[u] /\ y.del[u] = x.del[u] /\ x.ins[u] = {}
        BY <1>3, <2>12, <3>2
      <4>2. \A f \in rows[u] : \A v \in Workers \ {w} : \A s \in Owned(v, u) : f.key # s.key
        BY <1>1 DEF Contested, Owned
      <4>3. \A f \in rows[u] : \A s \in Visible(w, u) : s.key # f.key
        BY <1>5 DEF Clashes, WithKey, rows
      <4> QED BY <1>2, <2>2, <4>1, <4>2, <4>3 DEF Writes
    <3> QED BY <3>1, <3>2
  <2>14. Shape(y)
    BY <1>2, <2>11, <2>12 DEF ResetShape, Shape, IsReset, rows, Like
  <2>15. Basic'
    BY <2>1, <2>11, <2>12, <2>13, <2>14, WriteStep DEF Like
  <2>16. tx'[w] = y /\ Only(w)
    BY <2>1 DEF Basic, TypeOK, Only
  <2> QED BY <1>1, <1>3, <1>5, <2>1, <2>11, <2>12, <2>15, <2>16 DEF rows
<1> QED BY <1>4, <1>5

-----------------------------------------------------------------------------
LEMMA StoreEffect ==
  ASSUME Basic, NEW w \in Workers, StoreFile(w)
  PROVE  /\ tx[w].pc = "store" /\ files' = files \cup {tx[w].request} /\ UNCHANGED <<lost, db, requests>>
         /\ Basic' /\ Only(w) /\ SameHand(tx[w], tx'[w])
         /\ tx'[w].pc = "image" /\ tx'[w].image = tx[w].request
         /\ tx'[w].request = tx[w].request /\ tx'[w].run = tx[w].run /\ tx'[w].product = tx[w].product
         /\ tx'[w].old = tx[w].old /\ tx'[w].rest = tx[w].rest /\ tx'[w].step = tx[w].step
         /\ tx[w].request # 0
<1> DEFINE x == tx[w]
           y == [x EXCEPT !.pc = "image", !.image = x.request]
<1>1. x.pc = "store" /\ tx' = [tx EXCEPT ![w] = y] /\ UNCHANGED <<lost, db, requests>>
  BY DEF StoreFile, Becomes
<1>2. Good(x) /\ PlainShape(x) /\ x.request # 0 /\ x.step = 0
  BY <1>1, TxGood DEF Shape, IsReset, ResetShape, PlainShape
<1>3. \A t \in TableNames : Untouched(x, t)
  BY <1>1, <1>2, TableFacts DEF PlainShape
<1>4. y \in Transaction
  BY <1>2 DEF Good, Transaction
<1>5. /\ y.pc = "image" /\ y.image = x.request /\ y.request = x.request /\ y.run = x.run
      /\ y.product = x.product /\ y.old = x.old /\ y.rest = x.rest /\ y.step = x.step
      /\ y.seen = x.seen /\ SameHand(x, y)
  BY <1>2 DEF Good, Transaction, SameHand
<1> HIDE DEF y
<1>6. Good(y)
  BY <1>2, <1>4, <1>5 DEF Good, SameHand
<1>7. Shape(y)
  <2>1. \A t \in TableNames : Untouched(y, t)
    BY <1>3, <1>5 DEF Untouched, SameHand
  <2>2. Keeps(y)
    BY <1>2, <1>5 DEF PlainShape, Keeps, Renewed, SameHand
  <2>3. PlainShape(y)
    BY <1>2, <1>5, <2>1, <2>2, TableFacts DEF PlainShape
  <2>4. ~IsReset(y)
    BY <1>2, <1>5 DEF IsReset
  <2> QED BY <2>3, <2>4 DEF Shape
<1>8. Basic'
  BY <1>1, <1>5, <1>6, <1>7, LocalStep DEF SameHand
<1>9. tx'[w] = y /\ Only(w)
  BY <1>1 DEF Basic, TypeOK, Only
<1> QED BY <1>1, <1>2, <1>5, <1>8, <1>9 DEF StoreFile

Imaged(w) == {[p EXCEPT !.image = tx[w].image] : p \in Found(w)}

\* What a transaction that is over has left to do.
LEMMA OverOK ==
  ASSUME NEW x, Good(x), NEW pc \in {"cleanup", "undo"}
  PROVE  LET y == Over(x, pc) IN
         /\ Good(y) /\ Shape(y) /\ Bare(y) /\ y.pc = pc /\ y.request = 0 /\ y.run = NoRun /\ y.rest = {}
         /\ y.image = x.image /\ y.old = x.old
<1> DEFINE y == Over(x, pc)
<1>1. y = [Idle EXCEPT !.pc = pc, !.image = x.image, !.old = x.old]
  BY DEF Over
<1>2. y \in Transaction
  BY <1>1, IdleOK DEF Good, Transaction
<1>3. /\ Bare(y) /\ y.pc = pc /\ y.request = 0 /\ y.run = NoRun /\ y.rest = {}
      /\ y.image = x.image /\ y.old = x.old
  BY <1>1 DEF Bare, Idle
<1> HIDE DEF y
<1>4. Good(y)
  BY <1>2, <1>3, NoneOK DEF Good, Bare
<1>5. Shape(y)
  BY <1>3, BareShape
<1> QED BY <1>3, <1>4, <1>5 DEF y

LEMMA AfterwardsOK ==
  ASSUME NEW x, Good(x)
  PROVE  LET y == Afterwards(x) IN
         /\ Good(y) /\ Shape(y) /\ Bare(y) /\ y.request = 0 /\ y.run = NoRun /\ y.rest = {}
         /\ y.pc = (IF x.old = 0 THEN "idle" ELSE "cleanup") /\ y.old = x.old
<1>1. CASE x.old = 0
  BY <1>1, IdleOK, IdleShape DEF Afterwards, Bare
<1>2. CASE x.old # 0
  <2>1. Afterwards(x) = Over(x, "cleanup")
    BY <1>2 DEF Afterwards
  <2> QED BY <1>2, <2>1, OverOK
<1> QED BY <1>1, <1>2

LEMMA UndoneOK ==
  ASSUME NEW x, Good(x)
  PROVE  LET y == Undone(x) IN
         /\ Good(y) /\ Shape(y) /\ Bare(y) /\ y.request = 0 /\ y.run = NoRun /\ y.rest = {}
         /\ y.pc = (IF x.image = 0 THEN "idle" ELSE "undo") /\ y.image = x.image
         /\ y.old \in {0, x.old}
<1>1. CASE x.image = 0
  BY <1>1, IdleOK, IdleShape DEF Undone, Bare
<1>2. CASE x.image # 0
  <2>1. Undone(x) = Over(x, "undo")
    BY <1>2 DEF Undone
  <2> QED BY <1>2, <2>1, OverOK
<1> QED BY <1>1, <1>2

\* A transaction that ends without keeping anything.
Ended(w) ==
  /\ Only(w) /\ Bare(tx'[w]) /\ tx'[w].request = 0 /\ tx'[w].run = NoRun /\ tx'[w].rest = {}
  /\ UNCHANGED requests

LEMMA ImageEffect ==
  ASSUME Basic, NEW w \in Workers, SetImage(w)
  PROVE  /\ tx[w].pc = "image" /\ UNCHANGED <<files, lost, db>>
         /\ \/ Basic' /\ Ended(w) /\ tx'[w] = Undone(tx[w])
            \/ /\ Moved(w) /\ tx'[w].pc = "publish" /\ tx'[w].rest = tx[w].rest
               /\ Handles(tx[w], tx'[w], "products", Found(w), Imaged(w))
               /\ Found(w) # {}
               /\ \A p \in Found(w) : p \in db["products"] /\ ProductId(p) = tx[w].product /\ p \in ProductRow
               /\ ~Blocked(w)
<1> DEFINE x == tx[w]
<1>1. x.pc = "image" /\ ~Blocked(w) /\ UNCHANGED <<files, lost, db, requests>>
  BY DEF SetImage, Granted, Goes, Unchanged
<1>2. /\ Good(x) /\ TablesOK(db) /\ "products" \in TableNames /\ Table(w) = "products"
  BY <1>1, TxGood, TableFacts DEF Table
<1>3. PlainShape(x) /\ x.request # 0
  BY <1>1, TxGood DEF Shape, IsReset, ResetShape, PlainShape
<1>4. Untouched(x, "products")
  BY <1>1, <1>3 DEF PlainShape
<1>5. CASE Found(w) = {}
  <2>1. tx' = [tx EXCEPT ![w] = Undone(x)]
    BY <1>5 DEF SetImage, Becomes
  <2>2. Basic'
    BY <1>1, <1>2, <2>1, UndoneOK, ClearedStep DEF Bare
  <2>3. tx'[w] = Undone(x) /\ Only(w)
    BY <2>1 DEF Basic, TypeOK, Only
  <2> QED BY <1>1, <1>2, <2>2, <2>3, UndoneOK DEF Ended
<1>6. CASE Found(w) # {}
  <2> DEFINE y == [Put(x, "products", Found(w), Imaged(w)) EXCEPT !.pc = "publish"]
  <2>1. tx' = [tx EXCEPT ![w] = y]
    BY <1>6 DEF SetImage, Goes, Becomes, Imaged
  <2>2. \A p \in Found(w) : /\ p \in db["products"] /\ p \in Visible(w, "products")
                            /\ ProductId(p) = x.product /\ p \in ProductRow
                            /\ \A v \in Workers \ {w} : \A s \in Owned(v, "products") : p.key # s.key
    BY <1>1, <1>2, <1>4, FoundFree DEF Where, Visible, Untouched, TablesOK, RowOf
  <2>3. \A s \in Imaged(w) : s \in ProductRow /\ \E r \in Found(w) : SameRow(r, s)
    BY <1>2, <2>2 DEF Imaged, ProductRow, SameRow, Good, Transaction
  <2>4. \A r \in Found(w) : \E s \in Imaged(w) : SameRow(s, r) /\ s.id = r.id /\ s.by = r.by
    <3> TAKE r \in Found(w)
    <3> DEFINE s == [r EXCEPT !.image = tx[w].image]
    <3>1. s \in Imaged(w) /\ r \in ProductRow
      BY <2>2 DEF Imaged
    <3>2. SameRow(s, r) /\ s.id = r.id /\ s.by = r.by
      BY <3>1 DEF ProductRow, SameRow
    <3> QED BY <3>1, <3>2
  <2>5. RowsOf("products", Imaged(w))
    BY <1>2, <2>3 DEF RowsOf, RowOf
  <2>6. /\ Good(y) /\ Handles(x, y, "products", Found(w), Imaged(w)) /\ Like(x, y) /\ Ready(y)
        /\ y.pc = "publish" /\ y.rest = x.rest /\ y.step = x.step
    <3>1. "publish" \in Pcs
      BY DEF Pcs
    <3> QED BY <1>2, <2>5, <3>1, PutGoes
  <2> HIDE DEF y
  <2>7. Writes(w, y, "products", Found(w), Imaged(w))
    <3>1. TableIsolated("products")
      BY <1>2 DEF Basic, Isolation
    <3>2. Unique(Imaged(w))
      <4>1. \A r, s \in Found(w) : r = s
        BY <2>2, <3>1 DEF TableIsolated, Unique, ProductId
      <4> QED BY <4>1 DEF Imaged, Unique
    <3>3. \A r \in Found(w) \cup Imaged(w) : \A v \in Workers \ {w} : \A s \in Owned(v, "products") : r.key # s.key
      BY <2>2, <2>3 DEF SameRow
    <3>4. "products" \notin Numbered /\ Found(w) \subseteq Visible(w, "products")
      BY <2>2 DEF Numbered
    <3> QED BY <1>2, <2>3, <2>6, <3>2, <3>3, <3>4 DEF Writes, Handles
  <2>8. Shape(y)
    <3>1. Renewed(y)
      <4>1. Renews(Found(w), Imaged(w))
        BY <2>4 DEF Renews
      <4> QED BY <1>2, <1>3, <2>6, <4>1, PutKeeps DEF PlainShape, Keeps
    <3>2. ASSUME NEW t \in {"records", "audit", "movements", "runs", "balances"} PROVE Untouched(y, t)
      <4>1. t \in TableNames /\ t # "products" /\ Untouched(x, t)
        BY <1>1, <1>3, TableFacts DEF PlainShape
      <4> QED BY <2>6, <4>1 DEF Handles, Untouched
    <3>3. \A r \in y.del["products"] : \E s \in y.ins["products"] :
             SameRow(s, r) /\ s.id = r.id /\ s.by = r.by
      BY <1>2, <1>4, <2>4, <2>6 DEF Handles, Untouched
    <3>4. Keeps(y)
      BY <3>1, <3>2, <3>3 DEF Keeps, Untouched
    <3>5. y.step = 0 /\ y.request # 0
      BY <1>3, <2>6 DEF PlainShape, Like
    <3>6. ~IsReset(y)
      BY <2>6, <3>5 DEF IsReset
    <3>7. PlainShape(y)
      BY <2>6, <3>2, <3>4, <3>5 DEF PlainShape
    <3> QED BY <3>6, <3>7 DEF Shape
  <2>9. Moved(w) /\ tx'[w] = y
    BY <1>1, <1>2, <2>1, <2>6, <2>7, <2>8, PutWrites, MovedBy
  <2> QED BY <1>1, <1>6, <2>2, <2>6, <2>9
<1> QED BY <1>5, <1>6

\* Commits.
LEMMA CommitEffect ==
  ASSUME Basic, NEW w \in Workers, Commit(w)
  PROVE  /\ tx[w].pc = "commit" /\ UNCHANGED <<files, lost>>
         /\ Basic' /\ Ended(w) /\ tx'[w] = Idle /\ \A t \in TableNames : db'[t] = Visible(w, t)
<1>1. tx[w].pc = "commit" /\ tx' = [tx EXCEPT ![w] = Idle] /\ db' = Committed(w) /\ UNCHANGED <<files, lost, requests>>
  BY DEF Commit, Becomes
<1>2. Bare(Idle) /\ Good(Idle) /\ Shape(Idle)
  BY IdleOK, IdleShape DEF Bare
<1>3. Basic'
  BY <1>1, <1>2, IdleShape, CommitStep DEF Bare
<1>4. tx'[w] = Idle /\ Only(w)
  BY <1>1 DEF Basic, TypeOK, Only
<1> QED BY <1>1, <1>2, <1>3, <1>4, IdleShape DEF Ended, Committed

LEMMA CommitImageEffect ==
  ASSUME Basic, NEW w \in Workers, CommitImage(w)
  PROVE  /\ tx[w].pc = "publish" /\ UNCHANGED files
         /\ Basic' /\ Ended(w)
         /\ \/ (\A t \in TableNames : db'[t] = Visible(w, t)) /\ tx'[w] = Afterwards(tx[w]) /\ UNCHANGED lost
            \/ UNCHANGED <<db, lost>> /\ tx'[w] = Undone(tx[w])
            \/ /\ \A t \in TableNames : db'[t] = Visible(w, t)
               /\ tx'[w] = Undone(tx[w]) /\ lost' = lost \cup {tx[w].image}
<1> DEFINE x == tx[w]
<1>1. x.pc = "publish" /\ UNCHANGED <<files, requests>> /\ Good(x)
  BY TxGood DEF CommitImage
<1>2. ASSUME NEW y, Good(y), Shape(y), Bare(y), y.request = 0, y.run = NoRun, y.rest = {},
             tx' = [tx EXCEPT ![w] = y], UNCHANGED db \/ db' = Committed(w)
      PROVE  Basic' /\ Ended(w) /\ tx'[w] = y
  <2>1. ASSUME UNCHANGED db PROVE Basic'
    <3>1. y.del = None /\ y.ins = None /\ y.seen = {} /\ db' = db /\ requests' = requests
      BY <1>1, <1>2, <2>1 DEF Bare
    <3>2. Good(y) /\ Shape(y) /\ tx' = [tx EXCEPT ![w] = y] /\ y.request = 0
      BY <1>2
    <3> QED BY <3>1, <3>2, ClearedStep
  <2>2. ASSUME db' = Committed(w) PROVE Basic'
    <3>1. y.del = None /\ y.ins = None /\ y.seen = {} /\ requests' = requests
      BY <1>1, <1>2 DEF Bare
    <3>2. Good(y) /\ Shape(y) /\ tx' = [tx EXCEPT ![w] = y] /\ y.request = 0
      BY <1>2
    <3> QED BY <2>2, <3>1, <3>2, CommitStep
  <2>3. tx'[w] = y /\ Only(w)
    BY <1>2 DEF Basic, TypeOK, Only
  <2> QED BY <1>1, <1>2, <2>1, <2>2, <2>3 DEF Ended
<1>3. db' = Committed(w) => \A t \in TableNames : db'[t] = Visible(w, t)
  BY DEF Committed
<1>4. CASE db' = Committed(w) /\ Becomes(w, Afterwards(x)) /\ UNCHANGED lost
  BY <1>1, <1>2, <1>3, <1>4, AfterwardsOK DEF Becomes
<1>5. CASE UNCHANGED <<db, lost>> /\ Becomes(w, Undone(x))
  BY <1>1, <1>2, <1>5, UndoneOK DEF Becomes
<1>6. CASE db' = Committed(w) /\ Becomes(w, Undone(x)) /\ lost' = lost \cup {x.image}
  BY <1>1, <1>2, <1>3, <1>6, UndoneOK DEF Becomes
<1> QED BY <1>4, <1>5, <1>6 DEF CommitImage

LEMMA DestroyEffect ==
  ASSUME Basic, NEW w \in Workers, DestroyFile(w)
  PROVE  /\ tx[w].pc \in {"cleanup", "undo"} /\ Rolled(w) /\ UNCHANGED lost
         /\ files' = files \ {Unwanted(tx[w])}
BY DEF DestroyFile, Becomes, Rolled

LEMMA CrashEffect ==
  ASSUME Basic, NEW w \in Workers, Crash(w)
  PROVE  Rolled(w) /\ UNCHANGED <<files, lost>>
BY DEF Crash, RollBack, Becomes, Rolled

Previewed(w) == {Run(requests + 1, requests + 1, "PREVIEW", CsvSkus \ {p.key : p \in db.products})}

\* A preview inserts its run with its first statement, under its own number.
LEMMA PreviewEffect ==
  ASSUME Basic, NEW w \in Workers, RequestPreview(w)
  PROVE  /\ Basic' /\ Only(w) /\ UNCHANGED <<db, files, lost>> /\ requests' = requests + 1
         /\ tx'[w].pc = "commit" /\ tx'[w].run = NoRun /\ tx'[w].rest = {} /\ tx'[w].step = 0
         /\ tx'[w].image = 0 /\ tx'[w].old = 0 /\ tx'[w].request = requests + 1
         /\ \A t \in TableNames : /\ tx'[w].del[t] = {}
                                  /\ tx'[w].ins[t] = IF t = "runs" THEN Previewed(w) ELSE {}
<1> DEFINE x == [Idle EXCEPT !.pc = "commit", !.request = requests + 1]
           y == Put(x, "runs", {}, Previewed(w))
<1>1. tx' = [tx EXCEPT ![w] = y] /\ UNCHANGED <<db, files, lost>> /\ Arrive(w)
  BY DEF RequestPreview, Becomes, Previewed
<1>2. requests \in Nat /\ requests < MaxRequests /\ requests' = requests + 1 /\ requests + 1 # 0 /\ requests + 1 \in Nat
  BY <1>1, CatalogAssumption DEF Basic, TypeOK, Arrive
<1>3. /\ Bare(x) /\ x.request = requests + 1 /\ x.pc = "commit" /\ x.run = NoRun /\ x.rest = {}
      /\ x.image = 0 /\ x.old = 0
  BY DEF Bare, Idle
<1>4. x \in Transaction
  BY <1>2, IdleOK DEF Good, Transaction
<1> HIDE DEF x
<1>5. Good(x) /\ TablesOK(db)
  BY <1>3, <1>4, NoneOK, TxGood DEF Good, Bare
<1>6. \A r \in Previewed(w) : r \in RunRow /\ r.key = requests + 1 /\ r.born = requests + 1
  BY <1>2 DEF Previewed, Run, RunRow, Skus
<1>7. RowsOf("runs", Previewed(w)) /\ "runs" \in TableNames
  BY <1>6, TableFacts DEF RowsOf, RowOf
<1>8. Good(y) /\ Handles(x, y, "runs", {}, Previewed(w)) /\ Like(x, y) /\ Stays(x, y) /\ Ready(y)
  BY <1>5, <1>7, PutOK
<1> HIDE DEF y
<1>9. \A t \in TableNames : y.del[t] = {} /\ y.ins[t] = IF t = "runs" THEN Previewed(w) ELSE {}
  BY <1>3, <1>8, NoneEmpty DEF Handles, Bare
<1>10. tx'[w] = y /\ Only(w) /\ tx \in [Workers -> Transaction] /\ \A v \in Workers \ {w} : tx'[v] = tx[v]
  BY <1>1 DEF Basic, TypeOK, Only
<1>11. Births' /\ requests' \in 0 .. MaxRequests
  BY <1>1, <1>2, <1>3, <1>8, ClearedBirths DEF Like, Ready
<1>12. ASSUME NEW t \in TableNames PROVE TableIsolated(t)'
  <2>1. CASE t # "runs"
    BY <1>1, <1>9, <2>1, ClearedTable
  <2>2. CASE t = "runs"
    <3>1. TableIsolated(t)
      BY DEF Basic, Isolation
    <3>2. \A r \in db[t] : r.key <= requests /\ r.key \in Nat
      BY <1>2, <2>2, <3>1, CatalogAssumption DEF TableIsolated, Basic, Isolation, Births, Old, Numbered, TypeOK, TablesOK, RowOf, RunRow
    <3>3. ASSUME NEW v \in Workers, NEW r \in tx[v].ins[t] PROVE r.key <= requests /\ r.key \in Nat
      <4>1. r.key \in {0, r.born} /\ r.key \in Nat
        BY <2>2, <3>1, <3>3, TxGood DEF TableIsolated, Numbered, Good, TablesOK, RowOf, RunRow
      <4>2. r.born <= requests
        <5>1. CASE r.born = tx[v].request
          BY <5>1 DEF Basic, Isolation, Births
        <5>2. ASSUME NEW s \in tx[v].del[t], SameRow(s, r) PROVE r.born <= requests
          BY <3>1, <5>2 DEF TableIsolated, SameRow, Basic, Isolation, Births, Old
        <5> QED BY <3>1, <3>3, <5>1, <5>2 DEF TableIsolated
      <4> QED BY <1>2, <4>1, <4>2
    <3>4. \A v \in Workers : \A r \in Owned(v, t) : r.key # requests + 1
      BY <1>2, <3>1, <3>2, <3>3 DEF Owned, TableIsolated
    <3>5. \A r \in db[t] : r.key # requests + 1
      BY <1>2, <3>2
    <3>6. y.del[t] = {} /\ y.ins[t] = Previewed(w)
      BY <1>9, <2>2
    <3>7. Unique(Previewed(w))
      BY DEF Unique, Previewed
    <3>8. /\ Owned(w, t)' = Previewed(w) /\ Visible(w, t)' = db[t] \cup Previewed(w)
          /\ \A v \in Workers \ {w} : Owned(v, t)' = Owned(v, t) /\ Visible(v, t)' = Visible(v, t)
      BY <1>1, <1>10, <3>6 DEF Owned, Visible
    <3>9. Unique(db[t] \cup Previewed(w))
      BY <1>6, <3>1, <3>5, <3>7 DEF Unique, TableIsolated
    <3>10. y.request = requests + 1
      BY <1>3, <1>8 DEF Like
    <3>11. \A v \in Workers :
             /\ tx'[v].del[t] \subseteq db'[t]
             /\ tx'[v].ins[t] \cap db'[t] \subseteq tx'[v].del[t]
             /\ Unique(Visible(v, t)')
             /\ \A r \in tx'[v].ins[t] :
                  \/ r.born = tx'[v].request /\ tx'[v].request # 0
                  \/ \E s \in tx'[v].del[t] : SameRow(s, r)
      <4> TAKE v \in Workers
      <4>1. CASE v = w
        BY <1>1, <1>2, <1>6, <1>10, <3>5, <3>6, <3>8, <3>9, <3>10, <4>1
      <4>2. CASE v # w
        BY <1>1, <1>10, <3>1, <3>8, <4>2 DEF TableIsolated
      <4> QED BY <4>1, <4>2
    <3>12. \A u, v \in Workers : u # v => \A r \in Owned(u, t)', s \in Owned(v, t)' : r.key # s.key
      BY <1>6, <3>1, <3>4, <3>8 DEF TableIsolated
    <3>13. \A r \in db'[t] \cup UNION {tx'[v].ins[t] : v \in Workers} : r.key \in {0, r.born}
      <4>1. \A r \in db[t] \cup UNION {tx[v].ins[t] : v \in Workers} : r.key \in {0, r.born}
        BY <2>2, <3>1 DEF TableIsolated, Numbered
      <4> QED BY <1>1, <1>6, <1>10, <3>6, <4>1
    <3>14. Unique(db'[t])
      BY <1>1, <3>1 DEF TableIsolated
    <3> QED BY <3>11, <3>12, <3>13, <3>14 DEF TableIsolated
  <2> QED BY <2>1, <2>2
<1>13. Shape(y)
  <2>1. \A t \in TableNames : y.del[t] = {}
    BY <1>9
  <2>2. Keeps(y)
    BY <2>1, TableFacts DEF Keeps, Renewed, Renews
  <2>3. y.pc = "commit" /\ y.step = 0 /\ y.request # 0
    BY <1>2, <1>3, <1>8 DEF Stays, Like, Bare
  <2>4. Untouched(y, "balances") /\ Untouched(y, "products")
    BY <1>9, TableFacts DEF Untouched
  <2>5. ~IsReset(y)
    BY <2>3 DEF IsReset
  <2> QED BY <2>2, <2>3, <2>4, <2>5 DEF Shape, PlainShape
<1>14. TypeOK'
  BY <1>1, <1>8, <1>10, <1>11 DEF Basic, TypeOK, Good
<1>15. \A v \in Workers : Shape(tx'[v])
  BY <1>10, <1>13 DEF Basic
<1>16. Basic'
  BY <1>11, <1>12, <1>14, <1>15 DEF Basic, Isolation
<1> QED BY <1>1, <1>2, <1>3, <1>8, <1>9, <1>10, <1>16 DEF Like, Stays, Bare

-----------------------------------------------------------------------------
(* The fixture.                                                             *)

\* Where a transaction ends, all its predecessors have been here.
LEMMA CommitShape ==
  ASSUME Basic, NEW w \in Workers, tx[w].pc \in {"commit", "publish"}
  PROVE  \/ PlainShape(tx[w]) /\ ~IsReset(tx[w])
         \/ /\ IsReset(tx[w]) /\ ResetShape(tx[w]) /\ tx[w].pc = "commit" /\ tx[w].step = 6
            /\ \A t \in TableNames \ {"records"} : tx[w].ins[t] = Fixture(tx[w].request)[t]
            /\ tx[w].request \in 0 .. MaxRequests
<1>1. CASE IsReset(tx[w])
  <2>1. ResetShape(tx[w]) /\ tx[w].step \in 0 .. 6 /\ tx[w].request \in Nat
    BY <1>1, TxGood DEF Shape, Transaction
  <2>2. tx[w].pc = "commit" /\ ~(tx[w].step < 6)
    BY <2>1 DEF ResetShape
  <2>3. tx[w].request <= requests /\ requests \in 0 .. MaxRequests
    BY DEF Basic, Isolation, Births, TypeOK
  <2>4. tx[w].request \in 0 .. MaxRequests
    BY <2>1, <2>3, CatalogAssumption
  <2> QED BY <1>1, <2>1, <2>2, <2>4 DEF ResetShape
<1>2. CASE ~IsReset(tx[w])
  BY <1>2, TxGood DEF Shape
<1> QED BY <1>1, <1>2

LEMMA FixtureCommit ==
  ASSUME Basic, NEW w \in Workers, tx[w].pc \in {"commit", "publish"},
         \A t \in TableNames : db'[t] = Visible(w, t), FixtureWhole
  PROVE  FixtureWhole'
<1>1. CASE PlainShape(tx[w])
  <2>1. PICK born \in 0 .. MaxRequests : \A t \in TableNames : \A f \in Fixture(born)[t] :
          {r.born : r \in {r \in db[t] : r.key = f.key}} = {born}
    BY DEF FixtureWhole
  <2>2. ASSUME NEW t \in TableNames, NEW f \in Fixture(born)[t]
        PROVE  {r.born : r \in {r \in db'[t] : r.key = f.key}} = {born}
    <3>1. PICK r \in db[t] : r.key = f.key /\ r.born = born
      BY <2>1
    <3>2. PICK s \in Visible(w, t) : SameRow(s, r)
      <4>1. CASE r \in tx[w].del[t]
        <5>1. PICK s \in tx[w].ins[t] : SameRow(s, r)
          BY <1>1, <4>1 DEF PlainShape, Keeps, Renewed, Renews
        <5> QED BY <5>1 DEF Visible
      <4>2. CASE r \notin tx[w].del[t]
        BY <4>2 DEF Visible, SameRow
      <4> QED BY <4>1, <4>2
    <3>3. \A q \in db'[t] : q.key = f.key => q = s
      BY <3>1, <3>2 DEF Basic, Isolation, TableIsolated, Unique, SameRow
    <3>4. {r0 \in db'[t] : r0.key = f.key} = {s}
      BY <3>1, <3>2, <3>3 DEF SameRow
    <3> QED BY <3>1, <3>2, <3>4 DEF SameRow
  <2> QED BY <2>1, <2>2 DEF FixtureWhole
<1>2. CASE /\ tx[w].step = 6 /\ tx[w].pc = "commit" /\ tx[w].request \in 0 .. MaxRequests
           /\ \A t \in TableNames \ {"records"} : tx[w].ins[t] = Fixture(tx[w].request)[t]
  <2> DEFINE n == tx[w].request
  <2>1. n \in 0 .. MaxRequests /\ n \in Nat
    BY <1>2, CatalogAssumption
  <2>2. ASSUME NEW t \in TableNames, NEW f \in Fixture(n)[t]
        PROVE  {r.born : r \in {r \in db'[t] : r.key = f.key}} = {n}
    <3>1. t # "records" /\ f.born = n
      BY <2>1, <2>2, FixtureFacts
    <3>2. f \in Visible(w, t)
      BY <1>2, <3>1 DEF Visible
    <3>3. \A q \in db'[t] : q.key = f.key => q = f
      BY <3>2 DEF Basic, Isolation, TableIsolated, Unique
    <3>4. {r \in db'[t] : r.key = f.key} = {f}
      BY <3>2, <3>3
    <3> QED BY <3>1, <3>4
  <2> QED BY <2>1, <2>2 DEF FixtureWhole
<1> QED BY <1>1, <1>2, CommitShape

-----------------------------------------------------------------------------
(* Stock.                                                                   *)

Stocked(w) == IF Resets(w) THEN ResetLedger(w) ELSE StockOK(w)
StockInv == Refers(db) /\ LedgerStands /\ Exclusive /\ \A w \in Workers : Stocked(w)

LEMMA ResetsIs == \A w : Resets(w) <=> IsReset(tx[w])
BY DEF Resets, IsReset

LEMMA ResetFacts ==
  ASSUME Basic, NEW w \in Workers, Resets(w)
  PROVE  ResetShape(tx[w]) /\ tx[w].step \in 0 .. 6
BY ResetsIs, TxGood DEF Shape, Transaction

LEMMA PlainFacts ==
  ASSUME Basic, NEW w \in Workers, ~Resets(w)
  PROVE  PlainShape(tx[w])
BY ResetsIs, TxGood DEF Shape

\* While nothing is committed, what the others rely on stays.
LEMMA StockStep ==
  ASSUME Basic, StockInv, NEW w \in Workers, Only(w), db' = db, Stocked(w)',
         Resets(w)' => \A v \in Workers \ {w} : ~Resets(v) =>
            \A p \in tx'[w].del["products"] : ~RefersTo(tx[v].ins, p),
         ~Resets(w)' => \A v \in Workers \ {w} : Resets(v) =>
            \A p \in tx[v].del["products"] : ~RefersTo(tx'[w].ins, p)
  PROVE  StockInv'
<1>1. \A v \in Workers \ {w} : Stocked(v)'
  <2> TAKE v \in Workers \ {w}
  <2>1. tx'[v] = tx[v] /\ (Resets(v)' <=> Resets(v))
    BY DEF Only, Resets
  <2>2. \A t : Visible(v, t)' = Visible(v, t) /\ Owned(v, t)' = Owned(v, t)
    BY <2>1 DEF Visible, Owned
  <2>3. StockOK(v) <=> StockOK(v)'
    BY <2>1, <2>2 DEF StockOK
  <2>4. ResetLedger(v) <=> ResetLedger(v)'
    BY <2>1, <2>2 DEF ResetLedger, HasBalanceDeleted, Knows
  <2> QED BY <2>1, <2>3, <2>4 DEF StockInv, Stocked
<1>2. Refers(db)' /\ LedgerStands'
  BY DEF StockInv, Refers, LedgerStands
<1>3. Exclusive'
  <2> SUFFICES ASSUME NEW u \in Workers, NEW v \in Workers, Resets(u)', ~Resets(v)', u # v,
                      NEW p \in tx'[u].del["products"]
               PROVE  ~RefersTo(tx'[v].ins, p)
    BY DEF Exclusive
  <2>1. \A x \in Workers \ {w} : tx'[x] = tx[x] /\ (Resets(x)' <=> Resets(x))
    BY DEF Only, Resets
  <2>2. CASE u = w
    BY <2>1, <2>2
  <2>3. CASE v = w
    BY <2>1, <2>3
  <2>4. CASE u # w /\ v # w
    BY <2>1, <2>4 DEF StockInv, Exclusive
  <2> QED BY <2>2, <2>3, <2>4
<1> QED BY <1>1, <1>2, <1>3 DEF StockInv

\* Most transactions have nothing to do with stock.
LEMMA EmptyStock ==
  ASSUME Basic, Basic', StockInv, NEW w \in Workers, Only(w), db' = db,
         Untouched(tx'[w], "balances"), Untouched(tx'[w], "movements"),
         tx'[w].step = 0
  PROVE  StockInv'
<1>1. CASE ~Resets(w)'
  <2>1. StockOK(w)'
    BY DEF StockOK, Owned, Untouched
  <2>2. \A p : ~RefersTo(tx'[w].ins, p)
    BY DEF RefersTo, Untouched
  <2> QED BY <1>1, <2>1, <2>2, StockStep DEF Stocked
<1>2. CASE Resets(w)'
  <2>1. tx'[w].pc = "delete" \/ tx'[w].pc = "seed"
    BY <1>2 DEF Resets
  <2>2. ResetShape(tx'[w])
    BY <1>2 DEF Basic, Shape, Resets, IsReset
  <2>3. tx'[w].del["products"] = {} /\ tx'[w].pc # "commit"
    BY <2>1, <2>2 DEF ResetShape
  <2>4. ResetLedger(w)'
    BY <2>3 DEF ResetLedger
  <2> QED BY <1>2, <2>3, <2>4, StockStep DEF Stocked
<1> QED BY <1>1, <1>2

\* What a statement finds among the rows of a reset.
LEMMA DeleteFound ==
  ASSUME Basic, NEW w \in Workers, tx[w].pc = "delete", NEW r \in Visible(w, Table(w)),
         tx[w].waiting => Knows(w, r)
  PROVE  r \in Found(w)
BY DEF Found, Versions, Target, Seen, Where, Knows, SameRow

\* A reset that has deleted a product has deleted all its stock.
LEMMA StockGone ==
  ASSUME Basic, StockInv, NEW v \in Workers, Resets(v), NEW p \in tx[v].del["products"]
  PROVE  /\ tx[v].step = 6
         /\ \A m \in db["movements"] : m.product = ProductId(p) => m \in tx[v].del["movements"]
         /\ \A b \in db["balances"] : b.key = ProductId(p) => b \in tx[v].del["balances"]
<1>1. ResetShape(tx[v]) /\ tx[v].step = 6
  BY ResetFacts DEF ResetShape
<1>2. ResetLedger(v)
  BY DEF StockInv, Stocked
<1>3. TableIsolated("products") /\ p \in db["products"]
  BY TableFacts DEF Basic, Isolation, TableIsolated
<1>4. ASSUME NEW m \in db["movements"], m.product = ProductId(p), m \notin tx[v].del["movements"]
      PROVE  FALSE
  <2>1. PICK q \in Visible(v, "products") : ProductId(q) = m.product
    BY <1>1, <1>2, <1>4 DEF ResetLedger, Visible
  <2>2. CASE q \in tx[v].ins["products"]
    <3>1. tx[v].pc = "commit" /\ q \in Fixture(tx[v].request)["products"] /\ tx[v].request \in Nat
      BY <1>1, <2>2, TableFacts, TxGood DEF ResetShape, Transaction
    <3>2. ProductId(q) = FixtureId
      BY <3>1, FixtureFacts DEF ProductId, Product, FixtureId
    <3> QED BY <1>2, <1>4, <2>1, <3>1, <3>2 DEF ResetLedger
  <2>3. CASE q \in db["products"] \ tx[v].del["products"]
    BY <1>3, <1>4, <2>1, <2>3 DEF TableIsolated, Unique, ProductId
  <2> QED BY <2>2, <2>3 DEF Visible
<1>5. ASSUME NEW b \in db["balances"], b.key = ProductId(p) PROVE b \in tx[v].del["balances"]
  <2>1. PICK m \in db["movements"] : m.product = b.key
    BY DEF StockInv, Refers
  <2>2. m \in tx[v].del["movements"]
    BY <1>4, <1>5, <2>1
  <2> QED BY <1>1, <1>2, <2>1, <2>2 DEF ResetLedger, HasBalanceDeleted
<1> QED BY <1>1, <1>4, <1>5

\* A product that is not being removed is removed by no reset under way.
LEMMA NotRemoved ==
  ASSUME Basic, NEW w \in Workers, NEW p \in db["products"], ~Removed(w, p),
         NEW v \in Workers \ {w}, Resets(v), NEW q \in tx[v].del["products"]
  PROVE  ProductId(q) # ProductId(p)
<1>1. TableIsolated("products") /\ q \in db["products"]
  BY TableFacts DEF Basic, Isolation, TableIsolated
<1> QED BY <1>1 DEF TableIsolated, Unique, ProductId, Removed, SameRow

LEMMA LedgerFinite ==
  ASSUME Basic
  PROVE  \A p : IsFiniteSet(Of(db["movements"], p))
<1>1. IsFiniteSet(db["movements"])
  BY DEF Basic, TypeOK
<1> QED BY <1>1, FS_Subset DEF Of

\* A transaction with an empty hand.
LEMMA BareStock ==
  ASSUME Basic, Basic', StockInv, NEW w \in Workers, Only(w), db' = db, Bare(tx'[w])
  PROVE  StockInv'
<1>1. Untouched(tx'[w], "balances") /\ Untouched(tx'[w], "movements") /\ tx'[w].step = 0
  BY NoneEmpty, TableFacts DEF Bare, Untouched
<1> QED BY <1>1, EmptyStock

LEMMA RolledStock ==
  ASSUME Basic, StockInv, NEW w \in Workers, Rolled(w)
  PROVE  StockInv'
<1>1. Basic' /\ Only(w) /\ tx'[w] = Idle /\ db' = db
  BY RolledBasic DEF Rolled
<1>2. Bare(Idle)
  BY IdleOK, IdleShape DEF Bare, Idle
<1> QED BY <1>1, <1>2, BareStock

LEMMA EnsureStock ==
  ASSUME Basic, StockInv, NEW w \in Workers, EnsureBalance(w)
  PROVE  StockInv'
<1>1. tx[w].pc = "ensure"
  BY EnsureEffect
<1>2. ~Resets(w) /\ PlainShape(tx[w])
  BY <1>1, PlainFacts, ResetFacts DEF Resets, ResetShape
<1>3. /\ \A t \in {"movements", "balances"} : Untouched(tx[w], t) /\ t \in TableNames
      /\ tx[w].step = 0
  BY <1>1, <1>2, TableFacts DEF PlainShape
<1>4. CASE Rolled(w)
  BY <1>4, RolledStock
<1>5. CASE Moved(w) /\ SameHand(tx[w], tx'[w])
  <2>1. Untouched(tx'[w], "balances") /\ Untouched(tx'[w], "movements")
    BY <1>3, <1>5 DEF Untouched, SameHand
  <2> QED BY <1>3, <1>5, <2>1, EmptyStock DEF Moved
<1>6. CASE /\ Moved(w) /\ tx'[w].pc = "lock"
           /\ Handles(tx[w], tx'[w], "balances", {}, NewBalance(w))
           /\ \A b \in Visible(w, "balances") : b.key # tx[w].product
           /\ \E p \in db["products"] : ProductId(p) = tx[w].product /\ ~Removed(w, p)
  <2>1. /\ tx'[w].ins["balances"] = NewBalance(w) /\ tx'[w].del["balances"] = {}
        /\ Untouched(tx'[w], "movements") /\ tx'[w].product = tx[w].product
        /\ db' = db /\ tx'[w].step = 0 /\ Only(w)
    BY <1>3, <1>6 DEF Handles, Untouched, Moved, Like
  <2>2. Visible(w, "movements")' = db["movements"]
    BY <2>1 DEF Visible, Untouched
  <2>3. \A b \in NewBalance(w) : b.key = tx[w].product /\ b.onHand = 0
    BY DEF NewBalance
  <2>4. Of(db["movements"], tx[w].product) = {}
    <3>1. Visible(w, "balances") = db["balances"]
      BY <1>3 DEF Visible, Untouched
    <3> QED BY <1>6, <3>1 DEF StockInv, Refers, Of
  <2>5. StockOK(w)'
    <3>1. \A b \in Owned(w, "balances")' : b.key = tx'[w].product
      BY <2>1, <2>3 DEF Owned
    <3>2. \A b \in NewBalance(w) : LedgerOf(b, db["movements"])
      BY <2>3, <2>4, FS_EmptySet DEF LedgerOf
    <3>3. \A b \in tx'[w].ins["balances"] : LedgerOf(b, Visible(w, "movements")')
      BY <2>1, <2>2, <3>2
    <3>4. tx'[w].ins["movements"] = {} /\ tx'[w].pc # "commit"
      BY <1>6, <2>1 DEF Untouched
    <3> QED BY <3>1, <3>3, <3>4 DEF StockOK, LedgerOf
  <2>6. \A v \in Workers \ {w} : Resets(v) => \A p \in tx[v].del["products"] : ~RefersTo(tx'[w].ins, p)
    <3>1. PICK p \in db["products"] : ProductId(p) = tx[w].product /\ ~Removed(w, p)
      BY <1>6
    <3> QED BY <2>1, <2>3, <3>1, NotRemoved DEF RefersTo, Untouched
  <2>7. ~Resets(w)'
    BY <1>6, <2>1 DEF Resets
  <2> QED BY <2>1, <2>5, <2>6, <2>7, StockStep DEF Stocked
<1> QED BY <1>1, <1>4, <1>5, <1>6, EnsureEffect

LEMMA LockStock ==
  ASSUME Basic, StockInv, NEW w \in Workers, LockBalance(w)
  PROVE  StockInv'
<1>1. tx[w].pc = "lock"
  BY LockEffect
<1>2. ~Resets(w) /\ PlainShape(tx[w])
  BY <1>1, PlainFacts, ResetFacts DEF Resets, ResetShape
<1>3. Untouched(tx[w], "movements") /\ "movements" \in TableNames /\ "balances" \in TableNames /\ tx[w].step = 0
  BY <1>1, <1>2, TableFacts DEF PlainShape
<1>4. CASE Rolled(w)
  BY <1>4, RolledStock
<1>5. CASE /\ Moved(w) /\ tx'[w].pc = "write"
           /\ Handles(tx[w], tx'[w], "balances", Found(w), Found(w))
           /\ \A r \in Found(w) : r \in Visible(w, "balances") /\ r.key = tx[w].product
  <2>1. /\ tx'[w].ins["balances"] = (tx[w].ins["balances"] \ Found(w)) \cup Found(w)
        /\ tx'[w].del["balances"] = tx[w].del["balances"] \cup (Found(w) \cap db["balances"])
        /\ Untouched(tx'[w], "movements") /\ tx'[w].product = tx[w].product
        /\ db' = db /\ tx'[w].step = 0 /\ Only(w)
    BY <1>3, <1>5 DEF Handles, Untouched, Moved, Like
  <2>2. Visible(w, "movements")' = db["movements"] /\ Visible(w, "movements") = db["movements"]
    BY <1>3, <2>1 DEF Visible, Untouched
  <2>3. StockOK(w)
    BY <1>2 DEF StockInv, Stocked
  <2>4. StockOK(w)'
    <3>1. \A b \in Owned(w, "balances")' : b.key = tx'[w].product
      BY <1>5, <2>1, <2>3 DEF Owned, StockOK
    <3>2. ASSUME NEW b \in Found(w) PROVE LedgerOf(b, db["movements"])
      <4>1. CASE b \in tx[w].ins["balances"]
        BY <2>2, <2>3, <4>1 DEF StockOK
      <4>2. CASE b \in db["balances"]
        BY <4>2 DEF StockInv, LedgerStands, LedgerOf, Of
      <4> QED BY <1>5, <4>1, <4>2 DEF Visible
    <3>3. \A b \in tx'[w].ins["balances"] : LedgerOf(b, Visible(w, "movements")')
      BY <2>1, <2>2, <2>3, <3>2 DEF StockOK
    <3>4. tx'[w].ins["movements"] = {} /\ tx'[w].pc # "commit"
      BY <1>5, <2>1 DEF Untouched
    <3> QED BY <3>1, <3>3, <3>4 DEF StockOK, LedgerOf
  <2>5. ASSUME NEW v \in Workers \ {w}, Resets(v), NEW p \in tx[v].del["products"]
        PROVE  ~RefersTo(tx'[w].ins, p)
    <3>1. ~RefersTo(tx[w].ins, p)
      BY <1>2, <2>5 DEF StockInv, Exclusive
    <3>2. ASSUME NEW b \in Found(w), b \in db["balances"], b.key = ProductId(p) PROVE FALSE
      <4>1. b \in tx[v].del["balances"]
        BY <2>5, <3>2, StockGone
      <4>2. ~Blocked(w) /\ Table(w) = "balances"
        BY <1>1 DEF LockBalance, Granted, Table
      <4>3. ~Replaced(w, "balances", b)
        BY <1>1, <4>2 DEF Blocked
      <4> QED BY <4>1, <4>3 DEF Replaced, SameRow
    <3>3. ASSUME NEW b \in tx'[w].ins["balances"] PROVE b.key # ProductId(p)
      BY <1>5, <2>1, <3>1, <3>2 DEF RefersTo, Visible
    <3> QED BY <2>1, <3>3 DEF RefersTo, Untouched
  <2>6. ~Resets(w)'
    BY <1>5, <2>1 DEF Resets
  <2> QED BY <2>1, <2>4, <2>5, <2>6, StockStep DEF Stocked
<1> QED BY <1>4, <1>5, LockEffect

LEMMA OneMore ==
  ASSUME NEW ms, NEW m, m \notin ms, NEW p, IsFiniteSet(Of(ms, p)), m.product = p
  PROVE  /\ Cardinality(Of(ms \cup {m}, p)) = Cardinality(Of(ms, p)) + 1
         /\ Cardinality(Of(ms, p)) \in Nat
<1>1. Of(ms \cup {m}, p) = Of(ms, p) \cup {m} /\ m \notin Of(ms, p)
  BY DEF Of
<1>2. Cardinality(Of(ms, p) \cup {m}) = Cardinality(Of(ms, p)) + 1
  BY <1>1, FS_AddElement
<1>3. Cardinality(Of(ms, p)) \in Nat
  BY FS_CardinalityType
<1> QED BY <1>1, <1>2, <1>3

LEMMA WriteStockOK ==
  ASSUME Basic, StockInv, NEW w \in Workers, WriteStock(w)
  PROVE  StockInv'
<1>1. tx[w].pc = "write"
  BY StockEffect
<1>2. ~Resets(w) /\ PlainShape(tx[w]) /\ StockOK(w)
  BY <1>1, PlainFacts, ResetFacts DEF Resets, ResetShape, StockInv, Stocked
<1>3. /\ Untouched(tx[w], "movements") /\ "movements" \in TableNames /\ "balances" \in TableNames
      /\ "records" \in TableNames /\ tx[w].step = 0 /\ tx[w].request # 0
  BY <1>1, <1>2, TableFacts DEF PlainShape
<1>4. CASE Rolled(w)
  BY <1>4, RolledStock
<1>5. CASE /\ Moved(w) /\ tx'[w].pc = "commit"
           /\ \E p \in db["products"] : ProductId(p) = tx[w].product /\ ~Removed(w, p)
           /\ \E b \in tx[w].ins["balances"] :
                    /\ b.key = tx[w].product /\ b \in BalanceRow
                    /\ \A c \in Visible(w, "balances") : c.key = b.key => c = b
                    /\ \E z, q :
                         /\ Handles(tx[w], z, "balances", {b}, {[b EXCEPT !.onHand = @ + 1]})
                         /\ Handles(z, q, "movements", {}, Movement(w))
                         /\ Handles(q, tx'[w], "records", {}, Answer(w))
  <2>1. PICK b \in tx[w].ins["balances"] :
                    /\ b.key = tx[w].product /\ b \in BalanceRow
                    /\ \A c \in Visible(w, "balances") : c.key = b.key => c = b
                    /\ \E z, q :
                         /\ Handles(tx[w], z, "balances", {b}, {[b EXCEPT !.onHand = @ + 1]})
                         /\ Handles(z, q, "movements", {}, Movement(w))
                         /\ Handles(q, tx'[w], "records", {}, Answer(w))
    BY <1>5
  <2> DEFINE n == [b EXCEPT !.onHand = @ + 1]
             m == [key |-> tx[w].request, born |-> tx[w].request, product |-> tx[w].product]
  <2>2. PICK z, q : /\ Handles(tx[w], z, "balances", {b}, {n})
                    /\ Handles(z, q, "movements", {}, Movement(w))
                    /\ Handles(q, tx'[w], "records", {}, Answer(w))
    BY <2>1
  <2>3. n.key = tx[w].product /\ n.onHand = b.onHand + 1 /\ m.key = tx[w].request /\ m.product = tx[w].product
    BY <2>1 DEF BalanceRow
  <2>3a. Movement(w) = {m}
    BY DEF Movement
  <2> HIDE DEF n, m
  <2>4. z.ins["balances"] = {n} /\ z.del["balances"] \subseteq tx[w].del["balances"] \cup {b}
    <3>1. tx[w].ins["balances"] = {b}
      BY <1>2, <2>1 DEF StockOK, Owned, Visible
    <3> QED BY <1>3, <2>2, <3>1 DEF Handles
  <2>5. tx'[w].ins["balances"] = {n} /\ tx'[w].del["balances"] \subseteq tx[w].del["balances"] \cup {b}
    BY <1>3, <2>2, <2>4 DEF Handles
  <2>6. tx'[w].ins["movements"] = {m} /\ tx'[w].del["movements"] = {}
    <3>1. z.ins["movements"] = {} /\ z.del["movements"] = {}
      BY <1>3, <2>2 DEF Handles, Untouched
    <3>2. q.ins["movements"] = {m} /\ q.del["movements"] = {}
      BY <1>3, <2>2, <2>3a, <3>1 DEF Handles
    <3> QED BY <1>3, <2>2, <3>2 DEF Handles
  <2>7. db' = db /\ tx'[w].product = tx[w].product /\ tx'[w].step = 0 /\ Only(w)
    BY <1>3, <1>5 DEF Moved, Like
  <2>8. Visible(w, "movements") = db["movements"] /\ Visible(w, "movements")' = db["movements"] \cup {m}
    BY <1>3, <2>6, <2>7 DEF Visible, Untouched
  <2>9. m \notin db["movements"]
    BY <1>3, <2>3, FreshKey DEF Numbered
  <2>10. LedgerOf(n, db["movements"] \cup {m})
    <3>1. b.onHand = Cardinality(Of(db["movements"], b.key))
      BY <1>2, <2>8 DEF StockOK, LedgerOf
    <3>2. Cardinality(Of(db["movements"] \cup {m}, b.key)) = Cardinality(Of(db["movements"], b.key)) + 1
      <4>1. IsFiniteSet(Of(db["movements"], b.key))
        BY LedgerFinite
      <4>2. m.product = b.key
        BY <2>1, <2>3
      <4> QED BY <2>9, <4>1, <4>2, OneMore
    <3> QED BY <2>1, <2>3, <3>1, <3>2 DEF LedgerOf
  <2>11. PICK p \in db["products"] : ProductId(p) = tx[w].product /\ ~Removed(w, p)
    BY <1>5
  <2>12. StockOK(w)'
    <3>1. \A c \in Owned(w, "balances")' : c.key = tx'[w].product
      BY <1>2, <2>1, <2>3, <2>5, <2>7 DEF Owned, StockOK
    <3>2. \A c \in tx'[w].ins["balances"] : LedgerOf(c, Visible(w, "movements")')
      BY <2>5, <2>8, <2>10
    <3>3. \A x \in tx'[w].ins["movements"] :
            /\ \E c \in tx'[w].ins["balances"] : c.key = x.product
            /\ \E r \in db'["products"] : ProductId(r) = x.product
      BY <2>3, <2>5, <2>6, <2>7, <2>11
    <3>4. \A c \in tx'[w].ins["balances"] : \E x \in tx'[w].ins["movements"] : x.product = c.key
      BY <2>3, <2>5, <2>6
    <3> QED BY <3>1, <3>2, <3>3, <3>4 DEF StockOK, LedgerOf
  <2>13. \A v \in Workers \ {w} : Resets(v) => \A r \in tx[v].del["products"] : ~RefersTo(tx'[w].ins, r)
    BY <2>3, <2>5, <2>6, <2>11, NotRemoved DEF RefersTo
  <2>14. ~Resets(w)'
    BY <1>5, <2>7 DEF Resets
  <2> QED BY <2>7, <2>12, <2>13, <2>14, StockStep DEF Stocked
<1> QED BY <1>4, <1>5, StockEffect

\* Waiting, a reset remembers all the rows of the table.
LEMMA WaitStock ==
  ASSUME Basic, StockInv, NEW w \in Workers, Wait(w)
  PROVE  StockInv'
<1>1. /\ Basic' /\ Only(w) /\ db' = db /\ SameHand(tx[w], tx'[w])
      /\ tx'[w].pc = tx[w].pc /\ tx'[w].step = tx[w].step /\ tx'[w].product = tx[w].product
      /\ tx'[w].seen = {r \in Visible(w, Table(w)) : Where(w, r)}
      /\ tx[w].pc \in {"delete", "mark", "lock", "ensure", "write", "image"}
  BY WaitEffect DEF Like
<1>2. tx'[w].del = tx[w].del /\ tx'[w].ins = tx[w].ins /\ (Resets(w)' <=> Resets(w))
  BY <1>1 DEF SameHand, Resets
<1>3. Stocked(w)'
  <2>1. CASE ~Resets(w)
    <3>1. StockOK(w)
      BY <2>1 DEF StockInv, Stocked
    <3>2. \A t : Visible(w, t)' = Visible(w, t) /\ Owned(w, t)' = Owned(w, t)
      BY <1>1, <1>2 DEF Visible, Owned
    <3>3. StockOK(w)'
      BY <1>1, <1>2, <3>1, <3>2 DEF StockOK
    <3> QED BY <1>2, <2>1, <3>3 DEF Stocked
  <2>2. CASE Resets(w)
    <3>1. tx[w].pc = "delete" /\ ResetShape(tx[w]) /\ Table(w) = Deleted[tx[w].step + 1] /\ tx[w].step \in 0 .. 5
      BY <1>1, <2>2, ResetFacts, DeleteStep DEF ResetShape
    <3>2. \A r \in Visible(w, Table(w)) : Knows(w, r)'
      BY <1>1, <3>1 DEF Where, Knows, SameRow
    <3>3. ResetLedger(w)
      BY <2>2 DEF StockInv, Stocked
    <3>4. tx[w].step = 4 => \A b \in db["balances"] : Knows(w, b)'
      BY <3>1, <3>2 DEF Deleted, Visible, ResetShape
    <3>5. tx[w].step = 5 => \A p \in db["products"] : Knows(w, p)'
      BY <3>1, <3>2 DEF Deleted, Visible, ResetShape
    <3>6. tx[w].step # 6
      BY <3>1
    <3>7. HasBalanceDeleted(w)' <=> HasBalanceDeleted(w)
      BY <1>1, <1>2 DEF HasBalanceDeleted
    <3>8. ResetLedger(w)'
      BY <1>1, <1>2, <3>1, <3>3, <3>4, <3>5, <3>6, <3>7 DEF ResetLedger
    <3> QED BY <1>2, <2>2, <3>8 DEF Stocked
  <2> QED BY <2>1, <2>2
<1>4. Resets(w)' => \A v \in Workers \ {w} : ~Resets(v) => \A p \in tx'[w].del["products"] : ~RefersTo(tx[v].ins, p)
  BY <1>2 DEF StockInv, Exclusive
<1>5. ~Resets(w)' => \A v \in Workers \ {w} : Resets(v) => \A p \in tx[v].del["products"] : ~RefersTo(tx'[w].ins, p)
  BY <1>2 DEF StockInv, Exclusive
<1> QED BY <1>1, <1>3, <1>4, <1>5, StockStep

\* Deleting, it removes what it knows, and stops at a product with stock left.
LEMMA DeleteStock ==
  ASSUME Basic, StockInv, NEW w \in Workers, DeleteTable(w)
  PROVE  StockInv'
<1>1. tx[w].pc = "delete" /\ Resets(w)
  BY DeleteEffect DEF Resets
<1>2. /\ ResetShape(tx[w]) /\ ResetLedger(w) /\ tx[w].step \in 0 .. 5
      /\ Table(w) = Deleted[tx[w].step + 1]
  BY <1>1, DeleteStep DEF StockInv, Stocked
<1>3. CASE Rolled(w)
  BY <1>3, RolledStock
<1>4. CASE /\ Basic' /\ Only(w) /\ UNCHANGED <<db, requests>>
           /\ tx'[w].waiting = FALSE /\ tx'[w].step = tx[w].step + 1
           /\ tx'[w].pc = (IF tx[w].step = 5 THEN "seed" ELSE "delete")
           /\ Removes(w, Table(w), Found(w)) /\ ~Blocked(w)
           /\ tx[w].step = 5 => ~Restricted(w, Found(w))
  <2>1. /\ "movements" \in TableNames /\ "balances" \in TableNames /\ "products" \in TableNames
        /\ db' = db /\ Resets(w)' /\ tx'[w].step \in 0 .. 6
    BY <1>2, <1>4, TableFacts DEF Resets
  <2>2. ResetShape(tx'[w])
    BY <1>4, <2>1 DEF Basic, Shape, IsReset, Resets
  <2>3. ASSUME tx[w].step < 4 PROVE ResetLedger(w)' /\ tx'[w].del["products"] = {}
    <3>1. tx'[w].step < 5 /\ tx'[w].pc = "delete" /\ tx'[w].step # 6 /\ ~(tx'[w].step >= 5)
      BY <1>2, <1>4, <2>3
    <3>2. tx'[w].del["products"] = {}
      BY <2>1, <2>2, <3>1 DEF ResetShape
    <3> QED BY <1>4, <3>1, <3>2 DEF ResetLedger
  <2>4. ASSUME tx[w].step = 4 PROVE ResetLedger(w)' /\ tx'[w].del["products"] = {}
    <3>1. tx'[w].step = 5 /\ tx'[w].pc = "delete" /\ Table(w) = "balances"
      BY <1>2, <1>4, <2>4 DEF Deleted
    <3>2. tx'[w].del["products"] = {}
      BY <2>2, <3>1 DEF ResetShape
    <3>3. tx'[w].del["movements"] = tx[w].del["movements"] /\ Found(w) \subseteq tx'[w].del["balances"]
      <4>1. Handles(tx[w], tx'[w], "balances", Found(w), {}) /\ Found(w) \subseteq db["balances"]
        BY <1>4, <3>1 DEF Removes
      <4> QED BY <2>1, <4>1 DEF Handles
    <3>4. ASSUME NEW m \in tx[w].del["movements"], NEW b \in db["balances"], b.key = m.product
          PROVE  b \in Found(w)
      <4>1. b \in Visible(w, Table(w))
        BY <1>2, <2>4, <3>1 DEF ResetShape, Visible
      <4>2. tx[w].waiting => Knows(w, b)
        BY <1>1, <1>2, <2>4, <3>4 DEF ResetLedger
      <4> QED BY <1>1, <4>1, <4>2, DeleteFound
    <3>5. HasBalanceDeleted(w)'
      BY <2>1, <3>3, <3>4 DEF HasBalanceDeleted
    <3> QED BY <1>4, <3>1, <3>2, <3>5 DEF ResetLedger
  <2>5. ASSUME tx[w].step = 5 PROVE ResetLedger(w)' /\ tx'[w].del["products"] = Found(w)
    <3>1. tx'[w].step = 6 /\ tx'[w].pc = "seed" /\ Table(w) = "products" /\ ~Restricted(w, Found(w))
      BY <1>2, <1>4, <2>5 DEF Deleted
    <3>2. tx[w].del["products"] = {} /\ \A t \in TableNames : tx[w].ins[t] = {} /\ tx'[w].ins[t] = {}
      BY <1>1, <1>2, <2>2, <2>5, <3>1 DEF ResetShape
    <3>3. /\ tx'[w].del["movements"] = tx[w].del["movements"]
          /\ tx'[w].del["balances"] = tx[w].del["balances"]
          /\ tx'[w].del["products"] = Found(w) /\ Found(w) \subseteq db["products"]
      <4>1. Handles(tx[w], tx'[w], "products", Found(w), {}) /\ Found(w) \subseteq db["products"]
        BY <1>4, <3>1 DEF Removes
      <4> QED BY ZenonT(40), <2>1, <3>2, <4>1 DEF Handles
    <3>4. /\ \A t \in TableNames : Visible(w, t) = db[t] \ tx[w].del[t]
          /\ Visible(w, "movements")' = db["movements"] \ tx[w].del["movements"]
          /\ Visible(w, "products")' = db["products"] \ Found(w)
      BY <2>1, <3>2, <3>3 DEF Visible
    <3>5. ASSUME NEW p \in db["products"],
                 \/ \E m \in tx[w].del["movements"] : m.product = ProductId(p)
                 \/ \E b \in tx[w].del["balances"] : b.key = ProductId(p)
          PROVE  p \in Found(w)
      <4>1. p \in Visible(w, Table(w))
        BY <2>1, <3>1, <3>2, <3>4
      <4>2. tx[w].waiting => Knows(w, p)
        BY <1>1, <1>2, <2>5, <3>5 DEF ResetLedger
      <4> QED BY <1>1, <4>1, <4>2, DeleteFound
    <3>6. ASSUME NEW p \in Found(w), NEW m \in db["movements"], m.product = ProductId(p)
          PROVE  m \in tx[w].del["movements"]
      BY <2>1, <3>1, <3>4, <3>6 DEF Restricted
    <3>7. \A m \in db["movements"] : \E p \in db["products"] : ProductId(p) = m.product
      BY DEF StockInv, Refers
    <3>8. \A m \in tx'[w].del["movements"] : \E p \in tx'[w].del["products"] : ProductId(p) = m.product
      <4> TAKE m \in tx'[w].del["movements"]
      <4>1. m \in db["movements"] /\ m \in tx[w].del["movements"]
        BY <2>1, <3>3 DEF Basic, Isolation, TableIsolated
      <4>2. PICK p \in db["products"] : ProductId(p) = m.product
        BY <3>7, <4>1
      <4> QED BY <3>3, <3>5, <4>1, <4>2
    <3>9. \A m \in Visible(w, "movements")' : \E p \in Visible(w, "products")' : ProductId(p) = m.product
      <4> TAKE m \in Visible(w, "movements")'
      <4>1. m \in db["movements"] /\ m \notin tx[w].del["movements"]
        BY <3>4
      <4>2. PICK p \in db["products"] : ProductId(p) = m.product
        BY <3>7, <4>1
      <4>3. p \notin Found(w)
        BY <3>6, <4>1, <4>2
      <4> QED BY <3>4, <4>2, <4>3
    <3>10. \A b \in tx'[w].del["balances"], m \in db'["movements"] :
             m.product = b.key => m \in tx'[w].del["movements"]
      <4> SUFFICES ASSUME NEW b \in tx[w].del["balances"], NEW m \in db["movements"], m.product = b.key
                   PROVE  m \in tx[w].del["movements"]
        BY <2>1, <3>3
      <4>1. PICK p \in db["products"] : ProductId(p) = m.product
        BY <3>7
      <4>2. p \in Found(w)
        BY <3>5, <4>1
      <4> QED BY <3>6, <4>1, <4>2
    <3>11. HasBalanceDeleted(w)'
      <4>1. tx[w].step >= 5
        BY <2>5
      <4>2. HasBalanceDeleted(w)
        BY <1>2, <4>1 DEF ResetLedger
      <4> QED BY <2>1, <3>3, <4>2 DEF HasBalanceDeleted
    <3>12. tx'[w].pc # "commit" /\ tx'[w].pc # "delete"
      BY <3>1
    <3>13. ResetLedger(w)'
      BY <3>8, <3>9, <3>10, <3>11, <3>12 DEF ResetLedger
    <3> QED BY <3>3, <3>13
  <2>6. tx[w].step < 4 \/ tx[w].step = 4 \/ tx[w].step = 5
    BY <1>2
  <2>7. Stocked(w)'
    BY <2>1, <2>3, <2>4, <2>5, <2>6 DEF Stocked
  <2>8. \A v \in Workers \ {w} : ~Resets(v) => \A p \in tx'[w].del["products"] : ~RefersTo(tx[v].ins, p)
    <3>1. CASE tx[w].step = 5
      <4>1. Table(w) = "products"
        BY <1>2, <3>1 DEF Deleted
      <4>2. \A p \in Found(w) : ~Referred(w, p)
        BY <1>1, <1>4, <4>1 DEF Blocked
      <4> QED BY <2>5, <3>1, <4>2 DEF Referred
    <3>2. CASE tx[w].step # 5
      BY <2>3, <2>4, <2>6, <3>2
    <3> QED BY <3>1, <3>2
  <2> QED BY <1>4, <2>1, <2>7, <2>8, StockStep
<1> QED BY <1>3, <1>4, DeleteEffect

LEMMA SeedStock ==
  ASSUME Basic, StockInv, NEW w \in Workers, Seed(w)
  PROVE  StockInv'
<1>1. tx[w].pc = "seed" /\ Resets(w)
  BY SeedEffect DEF Resets
<1>2. ResetShape(tx[w]) /\ ResetLedger(w) /\ tx[w].step = 6 /\ tx[w].request \in Nat
  <2>1. ResetShape(tx[w]) /\ ResetLedger(w) /\ tx[w].step \in 0 .. 6 /\ tx[w].request \in Nat
    BY <1>1, ResetFacts, TxGood DEF StockInv, Stocked, Transaction
  <2> QED BY <1>1, <2>1 DEF ResetShape
<1>3. CASE Rolled(w)
  BY <1>3, RolledStock
<1>4. CASE /\ Basic' /\ Only(w) /\ UNCHANGED <<db, requests>>
           /\ tx'[w].step = tx[w].step /\ tx'[w].pc = "commit" /\ tx'[w].del = tx[w].del
           /\ \A t \in TableNames : tx[w].ins[t] = {}
           /\ \A t \in TableNames \ {"records"} : tx'[w].ins[t] = Fixture(tx[w].request)[t]
           /\ ~Clashes(w)
  <2> DEFINE f == Product(FixtureSku, 0, tx[w].request, NoRun, 0)
             g == [key |-> 0, born |-> tx[w].request, product |-> FixtureId]
  <2>1. /\ "movements" \in TableNames /\ "balances" \in TableNames /\ "products" \in TableNames
        /\ db' = db /\ Resets(w)'
    BY <1>2, <1>4, TableFacts DEF Resets
  <2>2. Fixture(tx[w].request)["products"] = {f} /\ Fixture(tx[w].request)["movements"] = {g}
    BY <1>2, FixtureFacts
  <2>3. tx'[w].ins["products"] = {f} /\ tx'[w].ins["movements"] = {g}
    BY <1>4, <2>1, <2>2
  <2>4. f.key = FixtureSku /\ ProductId(f) = FixtureId /\ g.product = FixtureId
    BY DEF Product, ProductId, FixtureId
  <2> HIDE DEF f, g
  <2>5. /\ Visible(w, "movements") = db["movements"] \ tx[w].del["movements"]
        /\ Visible(w, "products") = db["products"] \ tx[w].del["products"]
        /\ Visible(w, "movements")' = (db["movements"] \ tx[w].del["movements"]) \cup {g}
        /\ Visible(w, "products")' = (db["products"] \ tx[w].del["products"]) \cup {f}
    BY <1>4, <2>1, <2>3 DEF Visible
  <2>6. \A p \in Visible(w, "products") : p.key # FixtureSku
    BY <1>4, <2>1, <2>2, <2>4 DEF Clashes, WithKey
  <2>7. \A m \in Visible(w, "movements") : \E p \in Visible(w, "products") : ProductId(p) = m.product
    BY <1>2 DEF ResetLedger
  <2>8. \A m \in db["movements"] \ tx[w].del["movements"] : m.product # FixtureId
    BY <2>5, <2>6, <2>7 DEF ProductId, FixtureId
  <2>9. \A m \in Visible(w, "movements")' : \E p \in Visible(w, "products")' : ProductId(p) = m.product
    BY <2>4, <2>5, <2>7
  <2>10. HasBalanceDeleted(w)'
    <3>1. tx[w].step >= 5
      BY <1>2
    <3>2. HasBalanceDeleted(w)
      BY <1>2, <3>1 DEF ResetLedger
    <3> QED BY <1>4, <2>1, <3>2 DEF HasBalanceDeleted
  <2>11. ResetLedger(w)'
    BY <1>2, <1>4, <2>1, <2>8, <2>9, <2>10 DEF ResetLedger
  <2>12. \A v \in Workers \ {w} : ~Resets(v) => \A p \in tx'[w].del["products"] : ~RefersTo(tx[v].ins, p)
    BY <1>1, <1>4 DEF StockInv, Exclusive
  <2> QED BY <1>4, <2>1, <2>11, <2>12, StockStep DEF Stocked
<1> QED BY <1>3, <1>4, SeedEffect

-----------------------------------------------------------------------------
\* The rows of the fixture a seeded reset brings along.
LEMMA Seeded ==
  ASSUME Basic, NEW w \in Workers, Resets(w), tx[w].pc = "commit"
  PROVE  /\ tx[w].step = 6 /\ ResetShape(tx[w])
         /\ \E f, g, b :
              /\ tx[w].ins["products"] = {f} /\ tx[w].ins["movements"] = {g} /\ tx[w].ins["balances"] = {b}
              /\ f.key = FixtureSku /\ ProductId(f) = FixtureId /\ f.by = NoRun /\ f.image = 0
              /\ g.product = FixtureId /\ b.key = FixtureId /\ b.onHand = 1
<1>1. ResetShape(tx[w]) /\ tx[w].step \in 0 .. 6 /\ tx[w].request \in Nat
  BY ResetFacts, TxGood DEF Transaction
<1>2. tx[w].step = 6
  BY <1>1 DEF ResetShape
<1>3. \A t \in {"products", "movements", "balances"} : tx[w].ins[t] = Fixture(tx[w].request)[t]
  BY <1>1, TableFacts DEF ResetShape
<1> DEFINE f == Product(FixtureSku, 0, tx[w].request, NoRun, 0)
           g == [key |-> 0, born |-> tx[w].request, product |-> FixtureId]
           b == [key |-> FixtureId, born |-> tx[w].request, onHand |-> 1]
<1>4. tx[w].ins["products"] = {f} /\ tx[w].ins["movements"] = {g} /\ tx[w].ins["balances"] = {b}
  BY <1>1, <1>3, FixtureFacts
<1>5. /\ f.key = FixtureSku /\ ProductId(f) = FixtureId /\ f.by = NoRun /\ f.image = 0
      /\ g.product = FixtureId /\ b.key = FixtureId /\ b.onHand = 1
  BY DEF Product, ProductId, FixtureId
<1> HIDE DEF f, g, b
<1> QED BY <1>1, <1>2, <1>4, <1>5

\* What the commit of a transaction that only changes and adds leaves of every row.
Kept(t) ==
  /\ \A r \in db[t] : \E s \in db'[t] : SameRow(s, r)
  /\ \A r \in db[t], s \in db'[t] : r.key = s.key => SameRow(r, s)
KeptProducts ==
  /\ \A r \in db["products"] : \E s \in db'["products"] : SameRow(s, r)
  /\ \A r \in db["products"], s \in db'["products"] :
       r.key = s.key => SameRow(r, s) /\ s.id = r.id /\ s.by = r.by

LEMMA PlainKept ==
  ASSUME Basic, NEW w \in Workers, PlainShape(tx[w]), NEW t \in TableNames, db'[t] = Visible(w, t)
  PROVE  Kept(t)
<1>1. \A r \in tx[w].del[t] : \E s \in tx[w].ins[t] : SameRow(s, r)
  BY DEF PlainShape, Keeps, Renewed, Renews
<1>2. Unique(Visible(w, t))
  BY DEF Basic, Isolation, TableIsolated
<1>3. ASSUME NEW r \in db[t] PROVE \E s \in db'[t] : SameRow(s, r)
  BY <1>1 DEF Visible, SameRow
<1>4. ASSUME NEW r \in db[t], NEW s \in db'[t], r.key = s.key PROVE SameRow(r, s)
  BY <1>2, <1>3, <1>4 DEF Unique, SameRow
<1> QED BY <1>3, <1>4 DEF Kept

LEMMA PlainProducts ==
  ASSUME Basic, NEW w \in Workers, PlainShape(tx[w]), db'["products"] = Visible(w, "products")
  PROVE  KeptProducts
<1>1. "products" \in TableNames
  BY TableFacts
<1>2. Kept("products")
  BY <1>1, PlainKept
<1>3. \A r \in tx[w].del["products"] : \E s \in tx[w].ins["products"] :
        SameRow(s, r) /\ s.id = r.id /\ s.by = r.by
  BY DEF PlainShape, Keeps
<1>4. Unique(Visible(w, "products"))
  BY <1>1 DEF Basic, Isolation, TableIsolated
<1>5. ASSUME NEW r \in db["products"], NEW s \in db'["products"], r.key = s.key
      PROVE  s.id = r.id /\ s.by = r.by
  <2>1. CASE r \in tx[w].del["products"]
    <3>1. PICK q \in tx[w].ins["products"] : SameRow(q, r) /\ q.id = r.id /\ q.by = r.by
      BY <1>3, <2>1
    <3>2. q = s
      BY <1>4, <1>5, <3>1 DEF Unique, SameRow, Visible
    <3> QED BY <3>1, <3>2
  <2>2. CASE r \notin tx[w].del["products"]
    BY <1>4, <1>5, <2>2 DEF Unique, Visible
  <2> QED BY <2>1, <2>2
<1> QED BY <1>2, <1>5 DEF Kept, KeptProducts

\* A commit leaves the transactions of the others and their part of the stock.
LEMMA CommittedStock ==
  ASSUME StockInv, NEW w \in Workers, Ended(w), tx'[w].pc \notin {"delete", "seed"},
         Refers(db)', LedgerStands',
         \A v \in Workers \ {w} : Stocked(v)'
  PROVE  StockInv'
<1>1. ~Resets(w)' /\ tx'[w].step = 0 /\ \A t \in TableNames : tx'[w].ins[t] = {} /\ tx'[w].del[t] = {}
  BY NoneEmpty DEF Ended, Bare, Resets
<1>2. \A v \in Workers \ {w} : tx'[v] = tx[v] /\ (Resets(v)' <=> Resets(v))
  BY DEF Ended, Only, Resets
<1>3. Exclusive'
  <2> SUFFICES ASSUME NEW u \in Workers, NEW v \in Workers, Resets(u)', ~Resets(v)', u # v,
                      NEW p \in tx'[u].del["products"]
               PROVE  ~RefersTo(tx'[v].ins, p)
    BY DEF Exclusive
  <2>1. CASE v = w
    BY <1>1, <2>1, TableFacts DEF RefersTo
  <2>2. CASE v # w
    BY <1>1, <1>2, <2>2 DEF StockInv, Exclusive
  <2> QED BY <2>1, <2>2
<1>4. Stocked(w)'
  <2>1. StockOK(w)'
    BY <1>1, TableFacts DEF StockOK, Owned
  <2> QED BY <1>1, <2>1 DEF Stocked
<1> QED BY <1>3, <1>4 DEF StockInv

LEMMA PlainCommitStock ==
  ASSUME Basic, StockInv, NEW w \in Workers, Ended(w), tx'[w].pc \notin {"delete", "seed"},
         tx[w].pc \in {"commit", "publish"}, ~Resets(w), \A t \in TableNames : db'[t] = Visible(w, t)
  PROVE  StockInv'
<1> DEFINE ms == tx[w].ins["movements"]
           bs == tx[w].ins["balances"]
<1>1. "movements" \in TableNames /\ "balances" \in TableNames /\ "products" \in TableNames
  BY TableFacts
<1>2. PlainShape(tx[w]) /\ StockOK(w)
  BY PlainFacts DEF StockInv, Stocked
<1>3. Kept("balances") /\ KeptProducts
  BY <1>1, <1>2, PlainKept, PlainProducts
<1>4. /\ db'["movements"] = db["movements"] \cup ms
      /\ db'["balances"] = (db["balances"] \ tx[w].del["balances"]) \cup bs
  BY <1>1, <1>2 DEF Visible, PlainShape, Keeps
<1>5. \A m \in ms : /\ \E b \in bs : b.key = m.product
                    /\ \E p \in db["products"] : ProductId(p) = m.product
  BY <1>2 DEF StockOK
<1>6. \A b \in bs : \E m \in ms : m.product = b.key
  <2>1. tx[w].pc = "publish" => bs = {}
    BY <1>2 DEF PlainShape, Untouched
  <2> QED BY <1>2, <2>1 DEF StockOK
<1>7. \A t \in TableNames : TableIsolated(t)
  BY DEF Basic, Isolation
<1>8. \A p \in db["products"] : \E q \in db'["products"] : ProductId(q) = ProductId(p) /\ q.key = p.key
  BY <1>3 DEF KeptProducts, SameRow, ProductId
<1>9. /\ \A m \in db["movements"] : \E p \in db["products"] : ProductId(p) = m.product
      /\ \A m \in db["movements"] : \E b \in db["balances"] : b.key = m.product
      /\ \A b \in db["balances"] : \E m \in db["movements"] : b.key = m.product
  BY DEF StockInv, Refers
<1>10. Refers(db)'
  <2>1. \A m \in db'["movements"] : \E p \in db'["products"] : ProductId(p) = m.product
    BY <1>4, <1>5, <1>8, <1>9
  <2>2. \A m \in db'["movements"] : \E b \in db'["balances"] : b.key = m.product
    BY <1>3, <1>4, <1>5, <1>9 DEF Kept, SameRow
  <2>3. \A b \in db'["balances"] : \E m \in db'["movements"] : b.key = m.product
    BY <1>4, <1>6, <1>9
  <2> QED BY <2>1, <2>2, <2>3 DEF Refers
<1>11. LedgerStands'
  <2> SUFFICES ASSUME NEW b \in db'["balances"] PROVE LedgerOf(b, db'["movements"])
    BY DEF LedgerStands, LedgerOf, Of
  <2>1. CASE b \in bs
    BY <1>1, <1>2, <2>1 DEF StockOK
  <2>2. CASE b \in db["balances"] \ tx[w].del["balances"]
    <3>1. ASSUME NEW m \in ms, m.product = b.key PROVE FALSE
      <4>1. PICK c \in bs : c.key = b.key
        BY <1>5, <3>1
      <4>2. c = b
        BY <1>1, <1>7, <2>2, <4>1 DEF TableIsolated, Unique, Visible
      <4> QED BY <1>1, <1>7, <2>2, <4>2 DEF TableIsolated
    <3>2. Of(db'["movements"], b.key) = Of(db["movements"], b.key)
      BY <1>4, <3>1 DEF Of
    <3>3. b.onHand = Cardinality(Of(db["movements"], b.key))
      BY <2>2 DEF StockInv, LedgerStands, Of
    <3> QED BY <3>2, <3>3 DEF LedgerOf
  <2> QED BY <1>4, <2>1, <2>2
<1>12. ASSUME NEW v \in Workers \ {w}, ~Resets(v) PROVE StockOK(v)'
  <2>1. StockOK(v) /\ PlainShape(tx[v]) /\ tx'[v] = tx[v]
    BY <1>12, PlainFacts DEF StockInv, Stocked, Ended, Only
  <2>2. Owned(v, "balances")' = Owned(v, "balances")
    BY <2>1 DEF Owned
  <2>3. \A m \in tx[v].ins["movements"] : \E p \in db'["products"] : ProductId(p) = m.product
    BY <1>8, <2>1 DEF StockOK
  <2>4. ASSUME NEW b \in tx[v].ins["balances"] PROVE LedgerOf(b, Visible(v, "movements")')
    <3>1. \A m \in ms : m.product # b.key
      BY <1>1, <1>5, <1>7 DEF TableIsolated, Owned
    <3>2. Visible(v, "movements")' = Visible(v, "movements") \cup ms
      BY <1>4, <2>1 DEF Visible, PlainShape, Keeps
    <3>3. Of(Visible(v, "movements")', b.key) = Of(Visible(v, "movements"), b.key)
      BY <3>1, <3>2 DEF Of
    <3> QED BY <2>1, <3>3 DEF StockOK, LedgerOf
  <2>5. \A b \in tx'[v].ins["balances"] : LedgerOf(b, Visible(v, "movements"))'
    BY <2>1, <2>4 DEF LedgerOf
  <2> QED BY <2>1, <2>2, <2>3, <2>5 DEF StockOK
<1>13. ASSUME NEW v \in Workers \ {w}, Resets(v) PROVE ResetLedger(v)'
  <2>1. ResetLedger(v) /\ ResetShape(tx[v]) /\ tx'[v] = tx[v]
    BY <1>13, ResetFacts DEF StockInv, Stocked, Ended, Only
  <2>2. \A t \in TableNames : tx[v].del[t] \subseteq db[t] /\ tx[v].del[t] \subseteq Owned(v, t)
    BY <1>7 DEF TableIsolated, Owned
  <2>3. \A b \in bs, c \in Owned(v, "balances") : b.key # c.key
    BY <1>1, <1>7 DEF TableIsolated, Owned
  <2>4. \A t \in {"balances", "products"} : \A r \in db[t], s \in db'[t] :
           r.key = s.key /\ Knows(v, r) => Knows(v, s)'
    BY <1>3, <2>1 DEF Kept, KeptProducts, Knows, SameRow
  <2>5. HasBalanceDeleted(v) => HasBalanceDeleted(v)'
    <3> SUFFICES ASSUME HasBalanceDeleted(v), NEW m \in tx[v].del["movements"], NEW b \in db'["balances"], b.key = m.product
                 PROVE  b \in tx[v].del["balances"]
      BY <2>1 DEF HasBalanceDeleted
    <3>1. PICK c \in db["balances"] : c.key = m.product
      BY <1>1, <1>9, <2>2
    <3>2. c \in tx[v].del["balances"]
      BY <3>1 DEF HasBalanceDeleted
    <3>3. b \notin bs
      BY <1>1, <2>2, <2>3, <3>1, <3>2
    <3> QED BY <1>4, <3>3 DEF HasBalanceDeleted
  <2>6. tx[v].pc = "delete" /\ tx[v].step = 4 /\ tx[v].waiting =>
          \A m \in tx[v].del["movements"], b \in db'["balances"] : b.key = m.product => Knows(v, b)'
    <3> SUFFICES ASSUME tx[v].pc = "delete" /\ tx[v].step = 4 /\ tx[v].waiting,
                        NEW m \in tx[v].del["movements"], NEW b \in db'["balances"], b.key = m.product
                 PROVE  Knows(v, b)'
      OBVIOUS
    <3>1. PICK c \in db["balances"] : c.key = m.product
      BY <1>1, <1>9, <2>2
    <3>2. Knows(v, c)
      BY <2>1, <3>1 DEF ResetLedger
    <3> QED BY <2>4, <3>1, <3>2
  <2>7. ASSUME tx[v].pc = "delete" /\ tx[v].step = 5 /\ tx[v].waiting, NEW p \in db'["products"],
               \/ \E m \in tx[v].del["movements"] : m.product = ProductId(p)
               \/ \E b \in tx[v].del["balances"] : b.key = ProductId(p)
        PROVE  Knows(v, p)'
    <3>1. PICK q \in db["products"] : ProductId(q) = ProductId(p)
      <4>1. CASE \E m \in tx[v].del["movements"] : m.product = ProductId(p)
        BY <1>1, <1>9, <2>2, <4>1
      <4>2. CASE \E b \in tx[v].del["balances"] : b.key = ProductId(p)
        BY <1>1, <1>9, <2>2, <4>2
      <4> QED BY <2>7, <4>1, <4>2
    <3>2. Knows(v, q)
      BY <2>1, <2>7, <3>1 DEF ResetLedger
    <3>3. q.key = p.key
      BY <3>1 DEF ProductId
    <3> QED BY <2>4, <3>2, <3>3
  <2>8. ASSUME tx[v].step = 6, NEW m \in Visible(v, "movements")'
        PROVE  \E p \in Visible(v, "products")' : ProductId(p) = m.product
    <3>1. ASSUME NEW p \in db["products"], p \notin tx[v].del["products"], ProductId(p) = m.product
          PROVE  \E q \in Visible(v, "products")' : ProductId(q) = m.product
      <4>1. PICK q \in db'["products"] : ProductId(q) = ProductId(p) /\ q.key = p.key
        BY <1>8
      <4>2. q \notin tx[v].del["products"]
        BY <1>1, <1>7, <2>2, <3>1, <4>1 DEF TableIsolated, Unique
      <4> QED BY <2>1, <3>1, <4>1, <4>2 DEF Visible
    <3>2. CASE m \in Visible(v, "movements")
      <4>1. PICK p \in Visible(v, "products") : ProductId(p) = m.product
        BY <2>1, <2>8, <3>2 DEF ResetLedger
      <4>2. CASE p \in tx[v].ins["products"]
        BY <2>1, <4>1, <4>2 DEF Visible
      <4>3. CASE p \in db["products"] \ tx[v].del["products"]
        BY <3>1, <4>1, <4>3
      <4> QED BY <4>1, <4>2, <4>3 DEF Visible
    <3>3. CASE m \in ms
      <4>1. PICK p \in db["products"] : ProductId(p) = m.product
        BY <1>5, <3>3
      <4>2. p \notin tx[v].del["products"]
        BY <1>13, <3>3, <4>1 DEF StockInv, Exclusive, RefersTo
      <4> QED BY <3>1, <4>1, <4>2
    <3> QED BY <1>4, <2>1, <3>2, <3>3 DEF Visible
  <2>9. ASSUME tx[v].step = 6, NEW b \in tx[v].del["balances"], NEW m \in db'["movements"], m.product = b.key
        PROVE  m \in tx[v].del["movements"]
    <3>1. m \notin ms
      BY <1>1, <1>5, <2>2, <2>3, <2>9
    <3> QED BY <1>4, <2>1, <2>9, <3>1 DEF ResetLedger
  <2>10. ASSUME tx[v].pc = "commit", NEW m \in db'["movements"] \ tx[v].del["movements"]
         PROVE  m.product # FixtureId
    <3>1. CASE m \in db["movements"]
      BY <2>1, <2>10, <3>1 DEF ResetLedger
    <3>2. CASE m \in ms
      <4>1. PICK b \in bs : b.key = m.product
        BY <1>5, <3>2
      <4>2. \E c \in tx[v].ins["balances"] : c.key = FixtureId
        BY <1>13, <2>10, Seeded
      <4> QED BY <2>3, <4>1, <4>2 DEF Owned
    <3> QED BY <1>4, <3>1, <3>2
  <2>11. tx[v].step >= 5 => HasBalanceDeleted(v)'
    BY <2>1, <2>5 DEF ResetLedger
  <2>12. tx[v].step = 6 => \A m \in tx[v].del["movements"] : \E p \in tx[v].del["products"] : ProductId(p) = m.product
    BY <2>1 DEF ResetLedger
  <2> QED BY <2>1, <2>6, <2>7, <2>8, <2>9, <2>10, <2>11, <2>12 DEF ResetLedger
<1>14. \A v \in Workers \ {w} : Stocked(v)'
  <2> TAKE v \in Workers \ {w}
  <2>1. Resets(v)' <=> Resets(v)
    BY DEF Ended, Only, Resets
  <2> QED BY <1>12, <1>13, <2>1 DEF Stocked
<1> QED BY <1>10, <1>11, <1>14, CommittedStock

\* A reset that commits takes stock and products together, and no one else's.
LEMMA ResetCommitStock ==
  ASSUME Basic, StockInv, NEW w \in Workers, Ended(w), tx'[w].pc \notin {"delete", "seed"},
         tx[w].pc = "commit", Resets(w), \A t \in TableNames : db'[t] = Visible(w, t)
  PROVE  StockInv'
<1>1. "movements" \in TableNames /\ "balances" \in TableNames /\ "products" \in TableNames
  BY TableFacts
<1>2. PICK f, g, fb :
        /\ tx[w].ins["products"] = {f} /\ tx[w].ins["movements"] = {g} /\ tx[w].ins["balances"] = {fb}
        /\ f.key = FixtureSku /\ ProductId(f) = FixtureId /\ f.by = NoRun /\ f.image = 0
        /\ g.product = FixtureId /\ fb.key = FixtureId /\ fb.onHand = 1
  BY Seeded
<1> DEFINE dm == tx[w].del["movements"]
           db0 == tx[w].del["balances"]
           dp == tx[w].del["products"]
<1>3. tx[w].step = 6 /\ tx[w].step >= 5 /\ ResetLedger(w)
  BY Seeded DEF StockInv, Stocked
<1>4. /\ db'["movements"] = (db["movements"] \ dm) \cup {g}
      /\ db'["balances"] = (db["balances"] \ db0) \cup {fb}
      /\ db'["products"] = (db["products"] \ dp) \cup {f}
  BY <1>1, <1>2 DEF Visible
<1>5. \A t \in TableNames : TableIsolated(t)
  BY DEF Basic, Isolation
<1>6. dm \subseteq db["movements"] /\ db0 \subseteq db["balances"] /\ dp \subseteq db["products"]
  BY <1>1, <1>5 DEF TableIsolated
<1>7. \A m \in dm, b \in db["balances"] : b.key = m.product => b \in db0
  BY <1>3 DEF ResetLedger, HasBalanceDeleted
<1>8. \A m \in dm : \E p \in dp : ProductId(p) = m.product
  BY <1>3 DEF ResetLedger
<1>9. \A b \in db0, m \in db["movements"] : m.product = b.key => m \in dm
  BY <1>3 DEF ResetLedger
<1>10. \A m \in db["movements"] \ dm : m.product # FixtureId
  BY <1>3 DEF ResetLedger
<1>11. \A m \in db'["movements"] : \E p \in db'["products"] : ProductId(p) = m.product
  BY <1>1, <1>3 DEF ResetLedger
<1>12. /\ \A m \in db["movements"] : \E p \in db["products"] : ProductId(p) = m.product
       /\ \A m \in db["movements"] : \E b \in db["balances"] : b.key = m.product
       /\ \A b \in db["balances"] : \E m \in db["movements"] : b.key = m.product
  BY DEF StockInv, Refers
<1>13. Refers(db)'
  <2>1. ASSUME NEW m \in db'["movements"] PROVE \E b \in db'["balances"] : b.key = m.product
    <3>1. CASE m = g
      BY <1>2, <1>4, <3>1
    <3>2. CASE m \in db["movements"] \ dm
      BY <1>4, <1>9, <1>12, <3>2
    <3> QED BY <1>4, <3>1, <3>2
  <2>2. ASSUME NEW b \in db'["balances"] PROVE \E m \in db'["movements"] : b.key = m.product
    <3>1. CASE b = fb
      BY <1>2, <1>4, <3>1
    <3>2. CASE b \in db["balances"] \ db0
      BY <1>4, <1>7, <1>12, <3>2
    <3> QED BY <1>4, <3>1, <3>2
  <2> QED BY <1>11, <2>1, <2>2 DEF Refers
<1>14. LedgerStands'
  <2> SUFFICES ASSUME NEW b \in db'["balances"] PROVE LedgerOf(b, db'["movements"])
    BY DEF LedgerStands, LedgerOf, Of
  <2>1. CASE b = fb
    <3>1. Of(db'["movements"], FixtureId) = {g}
      BY <1>2, <1>4, <1>10 DEF Of
    <3>2. Cardinality({g}) = 1
      BY FS_Singleton
    <3> QED BY <1>2, <2>1, <3>1, <3>2 DEF LedgerOf
  <2>2. CASE b \in db["balances"] \ db0
    <3>1. b.key # FixtureId
      <4>1. fb \in Visible(w, "balances") /\ b \in Visible(w, "balances")
        BY <1>2, <2>2 DEF Visible
      <4>2. b.key = FixtureId => b = fb
        BY <1>1, <1>2, <1>5, <4>1 DEF TableIsolated, Unique
      <4>3. fb \in db["balances"] => fb \in db0
        BY <1>1, <1>2, <1>5 DEF TableIsolated
      <4> QED BY <2>2, <4>2, <4>3
    <3>2. Of(db'["movements"], b.key) = Of(db["movements"], b.key)
      BY <1>2, <1>4, <1>7, <2>2, <3>1 DEF Of
    <3>3. b.onHand = Cardinality(Of(db["movements"], b.key))
      BY <2>2 DEF StockInv, LedgerStands, Of
    <3> QED BY <3>2, <3>3 DEF LedgerOf
  <2> QED BY <1>4, <2>1, <2>2
<1>15. ASSUME NEW v \in Workers \ {w}, ~Resets(v) PROVE StockOK(v)'
  <2>1. StockOK(v) /\ PlainShape(tx[v]) /\ tx'[v] = tx[v]
    BY <1>15, PlainFacts DEF StockInv, Stocked, Ended, Only
  <2>2. Owned(v, "balances")' = Owned(v, "balances")
    BY <2>1 DEF Owned
  <2>3. \A p \in dp : ~RefersTo(tx[v].ins, p)
    BY <1>15 DEF StockInv, Exclusive
  <2>4. ASSUME NEW m \in tx[v].ins["movements"] PROVE \E p \in db'["products"] : ProductId(p) = m.product
    <3>1. PICK p \in db["products"] : ProductId(p) = m.product
      BY <2>1 DEF StockOK
    <3>2. p \notin dp
      BY <2>3, <3>1 DEF RefersTo
    <3> QED BY <1>4, <3>1, <3>2
  <2>5. ASSUME NEW b \in tx[v].ins["balances"] PROVE LedgerOf(b, Visible(v, "movements")')
    <3>1. b.key # FixtureId
      <4>1. fb \in Owned(w, "balances") /\ b \in Owned(v, "balances")
        BY <1>2 DEF Owned
      <4> QED BY <1>1, <1>2, <1>5, <4>1 DEF TableIsolated
    <3>2. \A m \in dm : m.product # b.key
      BY <1>8, <2>3 DEF RefersTo
    <3>3. /\ Visible(v, "movements") = db["movements"] \cup tx[v].ins["movements"]
          /\ Visible(v, "movements")' = db'["movements"] \cup tx[v].ins["movements"]
      BY <2>1 DEF Visible, PlainShape, Keeps
    <3>4. Of(Visible(v, "movements")', b.key) = Of(Visible(v, "movements"), b.key)
      BY <1>2, <1>4, <3>1, <3>2, <3>3 DEF Of
    <3> QED BY <2>1, <3>4 DEF StockOK, LedgerOf
  <2>6. \A b \in tx'[v].ins["balances"] : LedgerOf(b, Visible(v, "movements"))'
    BY <2>1, <2>5 DEF LedgerOf
  <2> QED BY <2>1, <2>2, <2>4, <2>6 DEF StockOK
<1>16. ASSUME NEW v \in Workers \ {w}, Resets(v) PROVE ResetLedger(v)'
  <2>1. ResetLedger(v) /\ ResetShape(tx[v]) /\ tx'[v] = tx[v]
    BY <1>16, ResetFacts DEF StockInv, Stocked, Ended, Only
  <2>2. \A t \in TableNames : tx[v].del[t] \subseteq db[t] /\ tx[v].del[t] \subseteq Owned(v, t)
    BY <1>5 DEF TableIsolated, Owned
  <2>3. /\ \A r \in dm \cup {g} : \A s \in Owned(v, "movements") : r.key # s.key
        /\ \A r \in db0 \cup {fb} : \A s \in Owned(v, "balances") : r.key # s.key
        /\ \A r \in dp \cup {f} : \A s \in Owned(v, "products") : r.key # s.key
    <3>1. dm \cup {g} = Owned(w, "movements") /\ db0 \cup {fb} = Owned(w, "balances") /\ dp \cup {f} = Owned(w, "products")
      BY <1>2 DEF Owned
    <3> QED BY <1>1, <1>5, <3>1 DEF TableIsolated
  <2>4. tx[v].pc # "commit"
    <3> SUFFICES ASSUME tx[v].pc = "commit" PROVE FALSE
      OBVIOUS
    <3>1. \E q \in tx[v].ins["products"] : q.key = FixtureSku
      BY <1>16, Seeded
    <3> QED BY <1>2, <2>3, <3>1 DEF Owned
  <2>5. \A t \in TableNames : tx[v].ins[t] = {}
    BY <2>1, <2>4 DEF ResetShape
  <2>6. \A m \in tx[v].del["movements"] : m \notin dm /\ m.product # FixtureId /\ m \in db["movements"]
    BY <1>1, <1>10, <2>2, <2>3
  <2>7. \A b \in tx[v].del["balances"] : b.key # FixtureId
    BY <1>1, <1>2, <2>2, <2>3
  <2>8. \A b \in db'["balances"] : b.key # FixtureId => b \in db["balances"]
    BY <1>2, <1>4
  <2>9. \A p \in db'["products"] : ProductId(p) # FixtureId => p \in db["products"]
    BY <1>2, <1>4
  <2>10. \A t, r : Knows(v, r)' <=> Knows(v, r)
    BY <2>1 DEF Knows
  <2>11. HasBalanceDeleted(v) => HasBalanceDeleted(v)'
    BY <2>1, <2>6, <2>8 DEF HasBalanceDeleted
  <2>12. tx[v].pc = "delete" /\ tx[v].step = 4 /\ tx[v].waiting =>
           \A m \in tx[v].del["movements"], b \in db'["balances"] : b.key = m.product => Knows(v, b)'
    BY <2>1, <2>6, <2>8, <2>10 DEF ResetLedger
  <2>13. ASSUME tx[v].pc = "delete" /\ tx[v].step = 5 /\ tx[v].waiting, NEW p \in db'["products"],
                \/ \E m \in tx[v].del["movements"] : m.product = ProductId(p)
                \/ \E b \in tx[v].del["balances"] : b.key = ProductId(p)
         PROVE  Knows(v, p)'
    <3>1. p \in db["products"]
      BY <2>6, <2>7, <2>9, <2>13
    <3>2. Knows(v, p)
      BY <2>1, <2>13, <3>1 DEF ResetLedger
    <3> QED BY <2>10, <3>2
  <2>14. ASSUME tx[v].step = 6, NEW m \in Visible(v, "movements")'
         PROVE  \E p \in Visible(v, "products")' : ProductId(p) = m.product
    <3>1. Visible(v, "products")' = db'["products"] \ tx[v].del["products"]
      BY <1>1, <2>1, <2>5 DEF Visible
    <3>2. CASE m = g
      <4>1. f \notin tx[v].del["products"]
        BY <1>1, <2>2, <2>3
      <4> QED BY <1>2, <1>4, <3>1, <3>2, <4>1
    <3>3. CASE m \in (db["movements"] \ dm) \ tx[v].del["movements"]
      <4>1. PICK p \in Visible(v, "products") : ProductId(p) = m.product
        BY <2>1, <2>14, <3>3 DEF ResetLedger, Visible
      <4>2. p \in db["products"] /\ p \notin tx[v].del["products"]
        BY <1>1, <2>5, <4>1 DEF Visible
      <4>3. p \notin dp
        BY <3>3, <4>1, StockGone
      <4> QED BY <1>4, <3>1, <4>1, <4>2, <4>3
    <3> QED BY <1>1, <1>4, <2>1, <2>5, <3>2, <3>3 DEF Visible
  <2>15. ASSUME tx[v].step = 6, NEW b \in tx[v].del["balances"], NEW m \in db'["movements"], m.product = b.key
         PROVE  m \in tx[v].del["movements"]
    <3>1. m # g
      BY <1>2, <2>7, <2>15
    <3> QED BY <1>4, <2>1, <2>15, <3>1 DEF ResetLedger
  <2>16. tx[v].step >= 5 => HasBalanceDeleted(v)'
    BY <2>1, <2>11 DEF ResetLedger
  <2>17. tx[v].step = 6 => \A m \in tx[v].del["movements"] : \E p \in tx[v].del["products"] : ProductId(p) = m.product
    BY <2>1 DEF ResetLedger
  <2> QED BY <2>1, <2>4, <2>12, <2>13, <2>14, <2>15, <2>16, <2>17 DEF ResetLedger
<1>17. \A v \in Workers \ {w} : Stocked(v)'
  <2> TAKE v \in Workers \ {w}
  <2>1. Resets(v)' <=> Resets(v)
    BY DEF Ended, Only, Resets
  <2> QED BY <1>15, <1>16, <2>1 DEF Stocked
<1> QED BY <1>13, <1>14, <1>17, CommittedStock

\* The statements about products and runs.
LEMMA InsertStock ==
  ASSUME Basic, StockInv, NEW w \in Workers, NEW sku, InsertProduct(w, sku)
  PROVE  StockInv'
<1>1. tx[w].pc = "create"
  BY InsertEffect
<1>2. CASE Rolled(w)
  BY <1>2, RolledStock
<1>3. CASE Moved(w) /\ \E S : Handles(tx[w], tx'[w], "products", {}, S)
  <2>1. ~Resets(w) /\ PlainShape(tx[w])
    BY <1>1, PlainFacts, ResetFacts DEF Resets, ResetShape
  <2>2. Untouched(tx[w], "balances") /\ Untouched(tx[w], "movements") /\ tx[w].step = 0
    BY <1>1, <2>1 DEF PlainShape
  <2>3. Untouched(tx'[w], "balances") /\ Untouched(tx'[w], "movements")
    BY <1>3, <2>2, TableFacts DEF Handles, Untouched
  <2> QED BY <1>3, <2>2, <2>3, EmptyStock DEF Moved
<1> QED BY <1>2, <1>3, InsertEffect

LEMMA MarkStock ==
  ASSUME Basic, StockInv, NEW w \in Workers, MarkCommitted(w)
  PROVE  StockInv'
<1>1. tx[w].pc = "mark"
  BY MarkEffect
<1>2. CASE Rolled(w)
  BY <1>2, RolledStock
<1>3. CASE Moved(w) /\ \E z : /\ Handles(tx[w], z, "runs", Found(w), Marked(w))
                               /\ Handles(z, tx'[w], "records", {}, Answer(w))
  <2>1. ~Resets(w) /\ PlainShape(tx[w])
    BY <1>1, PlainFacts, ResetFacts DEF Resets, ResetShape
  <2>2. Untouched(tx[w], "balances") /\ Untouched(tx[w], "movements") /\ tx[w].step = 0
    BY <1>1, <2>1 DEF PlainShape
  <2>3. Untouched(tx'[w], "balances") /\ Untouched(tx'[w], "movements")
    BY <1>3, <2>2, TableFacts DEF Handles, Untouched
  <2> QED BY <1>3, <2>2, <2>3, EmptyStock DEF Moved
<1> QED BY <1>2, <1>3, MarkEffect

LEMMA RecheckStock ==
  ASSUME Basic, StockInv, NEW w \in Workers, Recheck(w)
  PROVE  StockInv'
<1>1. CASE Rolled(w)
  BY <1>1, RolledStock
<1>2. CASE /\ Basic' /\ Only(w) /\ UNCHANGED <<db, requests>>
           /\ SameHand(tx[w], tx'[w]) /\ tx'[w].step = 0
           /\ \A t \in TableNames : tx[w].del[t] = {} /\ tx[w].ins[t] = {}
  <2>1. Untouched(tx'[w], "balances") /\ Untouched(tx'[w], "movements")
    BY <1>2, TableFacts DEF SameHand, Untouched
  <2> QED BY <1>2, <2>1, EmptyStock
<1> QED BY <1>1, <1>2, RecheckEffect

LEMMA StoreStock ==
  ASSUME Basic, StockInv, NEW w \in Workers, StoreFile(w)
  PROVE  StockInv'
<1>1. /\ Basic' /\ Only(w) /\ SameHand(tx[w], tx'[w]) /\ db' = db /\ tx[w].pc = "store"
      /\ tx'[w].step = tx[w].step
  BY StoreEffect
<1>2. ~Resets(w) /\ PlainShape(tx[w])
  BY <1>1, PlainFacts, ResetFacts DEF Resets, ResetShape
<1>3. Untouched(tx'[w], "balances") /\ Untouched(tx'[w], "movements") /\ tx'[w].step = 0
  BY <1>1, <1>2 DEF PlainShape, SameHand, Untouched
<1> QED BY <1>1, <1>3, EmptyStock

LEMMA ImageStock ==
  ASSUME Basic, StockInv, NEW w \in Workers, SetImage(w)
  PROVE  StockInv'
<1>1. tx[w].pc = "image" /\ db' = db
  BY ImageEffect
<1>2. CASE Basic' /\ Ended(w)
  BY <1>1, <1>2, BareStock DEF Ended
<1>3. CASE Moved(w) /\ Handles(tx[w], tx'[w], "products", Found(w), Imaged(w))
  <2>1. ~Resets(w) /\ PlainShape(tx[w])
    BY <1>1, PlainFacts, ResetFacts DEF Resets, ResetShape
  <2>2. Untouched(tx[w], "balances") /\ Untouched(tx[w], "movements") /\ tx[w].step = 0
    BY <1>1, <2>1 DEF PlainShape
  <2>3. Untouched(tx'[w], "balances") /\ Untouched(tx'[w], "movements")
    BY <1>3, <2>2, TableFacts DEF Handles, Untouched
  <2> QED BY <1>3, <2>2, <2>3, EmptyStock DEF Moved
<1> QED BY <1>2, <1>3, ImageEffect

\* A commit, of either kind.
LEMMA EndedStock ==
  ASSUME Basic, Basic', StockInv, NEW w \in Workers, Ended(w), tx'[w].pc \notin {"delete", "seed"},
         tx[w].pc \in {"commit", "publish"},
         db' = db \/ \A t \in TableNames : db'[t] = Visible(w, t)
  PROVE  StockInv'
<1>1. CASE db' = db
  BY <1>1, BareStock DEF Ended
<1>2. CASE (\A t \in TableNames : db'[t] = Visible(w, t)) /\ ~Resets(w)
  BY <1>2, PlainCommitStock
<1>3. CASE (\A t \in TableNames : db'[t] = Visible(w, t)) /\ Resets(w)
  <2>1. tx[w].pc = "commit"
    BY <1>3, ResetFacts DEF ResetShape
  <2> QED BY <1>3, <2>1, ResetCommitStock
<1> QED BY <1>1, <1>2, <1>3

LEMMA CommitStock ==
  ASSUME Basic, StockInv, NEW w \in Workers, Commit(w)
  PROVE  StockInv'
BY CommitEffect, IdleShape, EndedStock

LEMMA CommitImageStock ==
  ASSUME Basic, StockInv, NEW w \in Workers, CommitImage(w)
  PROVE  StockInv'
<1>1. Good(tx[w])
  BY TxGood
<1>2. Afterwards(tx[w]).pc \notin {"delete", "seed"} /\ Undone(tx[w]).pc \notin {"delete", "seed"}
  BY <1>1, AfterwardsOK, UndoneOK
<1> QED BY <1>2, CommitImageEffect, EndedStock

LEMMA PreviewStock ==
  ASSUME Basic, StockInv, NEW w \in Workers, RequestPreview(w)
  PROVE  StockInv'
<1>1. Basic' /\ Only(w) /\ db' = db /\ tx'[w].step = 0
  BY PreviewEffect
<1>2. Untouched(tx'[w], "balances") /\ Untouched(tx'[w], "movements")
  BY PreviewEffect, TableFacts DEF Untouched
<1> QED BY <1>1, <1>2, EmptyStock

-----------------------------------------------------------------------------
(* Imports.                                                                 *)

ImportInv ==
  /\ RunsOK /\ ImportedWhole
  /\ \A w \in Workers : ImportOK(w)
  /\ \A w \in Workers : Resets(w) => ImportsReset(w)

\* The numbers of rows, runs and files are older than the requests that begin.
LEMMA OldStays ==
  ASSUME requests \in Nat, NEW w \in Workers, Only(w),
         \/ requests' = requests /\ tx'[w].request \in {0, tx[w].request}
         \/ requests' = requests + 1 /\ tx'[w].request = requests + 1,
         NEW n \in Int, Old(n)
  PROVE  Old(n)'
<1>1. n <= requests /\ \A v \in Workers : tx[v].request # 0 => tx[v].request # n
  BY DEF Old
<1>2. \A v \in Workers : v # w => tx'[v].request = tx[v].request
  BY DEF Only
<1>3. n <= requests'
  BY <1>1
<1>4. tx'[w].request # 0 => tx'[w].request # n
  BY <1>1
<1> QED BY <1>1, <1>2, <1>3, <1>4 DEF Old

Older(w) ==
  \/ requests' = requests /\ tx'[w].request \in {0, tx[w].request}
  \/ requests' = requests + 1 /\ tx'[w].request = requests + 1

LEMMA ImportStep ==
  ASSUME Basic, ImportInv, NEW w \in Workers, Only(w), db' = db, Older(w), ImportOK(w)',
         Resets(w)' => ImportsReset(w)',
         \A r \in tx'[w].ins["runs"] : r.key = 0 => r.skus = {PreviewSku}
  PROVE  ImportInv'
<1>1. requests \in Nat /\ \A v \in Workers : tx[v].run \in Int
  <2>1. \A v \in Workers : tx[v].run \in Nat \cup {NoRun}
    BY TxGood DEF Transaction
  <2> QED BY <2>1, CatalogAssumption DEF NoRun, Basic, TypeOK
<1>2. ASSUME NEW v \in Workers \ {w} PROVE ImportOK(v)' /\ (Resets(v)' => ImportsReset(v)')
  <2>1. tx'[v] = tx[v] /\ (Resets(v)' <=> Resets(v))
    BY DEF Only, Resets
  <2>2. Inserted(v)' = Inserted(v)
    BY <2>1 DEF Inserted
  <2>3. ImportOK(v)
    BY DEF ImportInv
  <2>4. \A n \in Int : Old(n) => Old(n)'
    BY <1>1, OldStays DEF Older
  <2>5. ImportOK(v)'
    BY <1>1, <2>1, <2>2, <2>3, <2>4 DEF ImportOK, Old
  <2>6. ImportsReset(v) => ImportsReset(v)'
    BY <2>1 DEF ImportsReset, Knows
  <2> QED BY <2>1, <2>5, <2>6 DEF ImportInv
<1>3. RunsOK'
  <2>1. \A v \in Workers : \A r \in tx'[v].ins["runs"] : r.key = 0 => r.skus = {PreviewSku}
    BY DEF ImportInv, RunsOK, Only
  <2> QED BY <2>1 DEF ImportInv, RunsOK
<1>4. ImportedWhole'
  BY DEF ImportInv, ImportedWhole
<1> QED BY <1>2, <1>3, <1>4 DEF ImportInv

\* A transaction that imports nothing.
LEMMA ImportPlain ==
  ASSUME Basic, ImportInv, NEW w \in Workers, Only(w), db' = db, Older(w),
         tx'[w].run = NoRun, tx'[w].pc # "mark",
         \A p \in tx'[w].ins["products"] : p.by = NoRun \/ \E s \in tx'[w].del["products"] : SameRow(s, p),
         \A r \in tx'[w].ins["runs"] : r.key = 0 => r.skus = {PreviewSku},
         Resets(w)' => ImportsReset(w)'
  PROVE  ImportInv'
<1>1. NoRun <= requests' /\ \A v \in Workers : tx'[v].request # NoRun
  <2>1. requests \in Nat /\ requests' \in Nat
    BY CatalogAssumption DEF Basic, TypeOK, Older
  <2>2. \A v \in Workers : tx[v].request \in Nat
    BY TxGood DEF Transaction
  <2>3. \A v \in Workers : tx'[v].request \in Nat
    BY <2>1, <2>2 DEF Only, Older
  <2> QED BY <2>1, <2>3 DEF NoRun
<1>2. ImportOK(w)'
  BY <1>1 DEF ImportOK, Old
<1> QED BY <1>2, ImportStep

LEMMA ImportBare ==
  ASSUME Basic, ImportInv, NEW w \in Workers, Only(w), db' = db, Older(w),
         Bare(tx'[w]), tx'[w].run = NoRun, tx'[w].pc # "mark"
  PROVE  ImportInv'
<1>1. tx'[w].ins["products"] = {} /\ tx'[w].ins["runs"] = {}
  BY NoneEmpty, TableFacts DEF Bare
<1>2. ImportsReset(w)'
  BY DEF Bare, ImportsReset
<1> QED BY <1>1, <1>2, ImportPlain

LEMMA RolledImport ==
  ASSUME Basic, ImportInv, NEW w \in Workers, Rolled(w)
  PROVE  ImportInv'
<1>1. Only(w) /\ tx'[w] = Idle /\ db' = db /\ Older(w)
  BY RolledBasic, IdleShape DEF Rolled, Older
<1>2. Bare(Idle) /\ Idle.run = NoRun /\ Idle.pc # "mark"
  BY IdleOK, IdleShape DEF Bare, Idle
<1> QED BY <1>1, <1>2, ImportBare

\* An import begins: nothing inserted, everything to come.
LEMMA ImportBegun ==
  ASSUME Basic, ImportInv, NEW w \in Workers, NEW run \in db.runs, RequestImport(w, run)
  PROVE  ImportInv'
<1>1. /\ Only(w) /\ db' = db /\ Bare(tx'[w]) /\ tx'[w].request = requests + 1 /\ requests' = requests + 1
      /\ tx'[w].pc = (IF run.skus = {} THEN "mark" ELSE "create")
      /\ tx'[w].run = run.key /\ tx'[w].rest = run.skus
  BY ImportBegins DEF Began
<1>2. "runs" \in TableNames /\ "products" \in TableNames /\ run \in db["runs"] /\ run.key \in Nat
  BY TableFacts, RunTyped
<1>3. /\ tx'[w].ins["products"] = {} /\ tx'[w].ins["runs"] = {} /\ tx'[w].del["products"] = {}
      /\ tx'[w].step = 0 /\ ~tx'[w].waiting
  BY <1>1, <1>2, NoneEmpty DEF Bare
<1>4. run.key # 0 => Old(run.key)
  <2>1. run.key # 0 => run.key = run.born
    BY <1>2 DEF Basic, Isolation, TableIsolated, Numbered
  <2>2. Old(run.born)
    BY <1>2 DEF Basic, Isolation, Births
  <2> QED BY <2>1, <2>2
<1>5. tx'[w].run # 0 => tx'[w].run <= requests' /\ \A v \in Workers : tx'[v].request # 0 => tx'[v].request # tx'[w].run
  <2>1. requests \in Nat
    BY CatalogAssumption DEF Basic, TypeOK
  <2>2. ASSUME run.key # 0 PROVE run.key <= requests' /\ \A v \in Workers : tx'[v].request # 0 => tx'[v].request # run.key
    BY <1>1, <1>2, <1>4, <2>1, <2>2 DEF Old, Only
  <2> QED BY <1>1, <2>2
<1>6. \A r \in db["runs"] : r.key = run.key => r = run
  BY <1>2 DEF Basic, Isolation, TableIsolated, Unique
<1>7. run.key = 0 => run.skus = {PreviewSku}
  BY <1>2 DEF ImportInv, RunsOK
<1>8. Inserted(w)' = {}
  BY <1>3 DEF Inserted
<1>9. run.key # NoRun
  BY <1>2 DEF NoRun
<1>10. ImportOK(w)'
  BY <1>1, <1>3, <1>5, <1>6, <1>7, <1>8, <1>9 DEF ImportOK, Old
<1>11. ~Resets(w)'
  BY <1>1, <1>3 DEF Resets
<1> QED BY <1>1, <1>3, <1>10, <1>11, ImportStep DEF Older

LEMMA InsertImport ==
  ASSUME Basic, ImportInv, NEW w \in Workers, NEW sku, InsertProduct(w, sku)
  PROVE  ImportInv'
<1> DEFINE x == tx[w]
           new == Product(sku, x.request, x.request, x.run, 0)
<1>1. x.pc = "create" /\ sku \in x.rest
  BY InsertEffect
<1>2. CASE Rolled(w)
  BY <1>2, RolledImport
<1>3. CASE /\ Moved(w) /\ Handles(x, tx'[w], "products", {}, {new})
           /\ tx'[w].rest = x.rest \ {sku}
           /\ tx'[w].pc = (CASE tx'[w].rest # {} -> "create"
                             [] tx'[w].rest = {} /\ x.run = NoRun -> "commit" [] OTHER -> "mark")
  <2>1. /\ Only(w) /\ db' = db /\ requests' = requests /\ tx'[w].request = x.request
        /\ tx'[w].run = x.run /\ tx'[w].step = x.step
    BY <1>3 DEF Moved, Like
  <2>2. PlainShape(x) /\ x.step = 0 /\ ~Resets(w) /\ x.ins["runs"] = {}
    <3>1. PlainShape(x) /\ ~Resets(w)
      BY <1>1, PlainFacts, ResetFacts DEF Resets, ResetShape
    <3> QED BY <1>1, <3>1 DEF PlainShape, Untouched
  <2>3. /\ tx'[w].ins["products"] = x.ins["products"] \cup {new}
        /\ tx'[w].del["products"] = x.del["products"] /\ tx'[w].ins["runs"] = {}
    <3>1. "products" \in TableNames /\ "runs" \in TableNames
      BY TableFacts
    <3> HIDE DEF new, x
    <3>2. /\ tx'[w].ins["products"] = (x.ins["products"] \ {}) \cup {new}
          /\ tx'[w].del["products"] = x.del["products"] \cup ({} \cap db["products"])
          /\ tx'[w].ins["runs"] = x.ins["runs"]
      BY <1>3, <3>1 DEF Handles
    <3> QED BY <2>2, <3>2
  <2>4. new.key = sku /\ new.by = x.run
    BY DEF Product
  <2> HIDE DEF new
  <2>5. Inserted(w)' = Inserted(w) \cup {sku}
    BY <2>3, <2>4 DEF Inserted
  <2>6. Inserted(w)' \cup tx'[w].rest = Inserted(w) \cup x.rest
    BY <1>1, <1>3, <2>5
  <2>8. tx'[w].pc \in {"create", "commit", "mark"} /\ (tx'[w].pc = "mark" => tx'[w].rest = {} /\ x.run # NoRun)
        /\ (x.run # NoRun => tx'[w].pc # "commit")
    BY <1>3
  <2>9. ImportOK(w)
    BY DEF ImportInv
  <2>10. \A p \in tx'[w].ins["products"] :
           p.by \in {NoRun, x.run} \/ \E s \in tx'[w].del["products"] : SameRow(s, p)
    BY <2>3, <2>4, <2>9 DEF ImportOK
  <2>11. ASSUME x.run # NoRun
         PROVE  /\ tx'[w].pc \in {"create", "mark", "commit"} /\ tx'[w].step = 0
                /\ tx'[w].del["products"] = {} /\ \A p \in tx'[w].ins["products"] : p.by = x.run
                /\ x.run = 0 => Inserted(w)' \cup tx'[w].rest = {PreviewSku}
                /\ \A r \in db["runs"] \cup {} : r.key = x.run => r.skus = Inserted(w)' \cup tx'[w].rest
                /\ tx'[w].pc # "commit"
    BY <2>1, <2>2, <2>3, <2>4, <2>6, <2>8, <2>9, <2>11 DEF ImportOK
  <2>12. x.run # 0 => x.run <= requests /\ \A v \in Workers : tx'[v].request # 0 => tx'[v].request # x.run
    BY <2>1, <2>9 DEF ImportOK, Old, Only
  <2>13. ImportOK(w)'
    BY <2>1, <2>3, <2>8, <2>10, <2>11, <2>12 DEF ImportOK, Old
  <2>14. ~Resets(w)'
    BY <2>1, <2>2, <2>8 DEF Resets
  <2> QED BY <2>1, <2>3, <2>13, <2>14, ImportStep DEF Older
<1> QED BY <1>2, <1>3, InsertEffect

LEMMA MarkImport ==
  ASSUME Basic, ImportInv, NEW w \in Workers, MarkCommitted(w)
  PROVE  ImportInv'
<1> DEFINE x == tx[w]
<1>1. x.pc = "mark"
  BY MarkEffect
<1>2. CASE Rolled(w)
  BY <1>2, RolledImport
<1>3. CASE /\ Moved(w) /\ tx'[w].pc = "commit" /\ tx'[w].rest = x.rest /\ Found(w) # {}
           /\ \A r \in Found(w) : r \in db["runs"] /\ r.key = x.run /\ r \in RunRow
           /\ \E z : /\ Handles(x, z, "runs", Found(w), Marked(w))
                     /\ Handles(z, tx'[w], "records", {}, Answer(w))
  <2>1. /\ Only(w) /\ db' = db /\ requests' = requests /\ tx'[w].request = x.request
        /\ tx'[w].run = x.run /\ tx'[w].step = x.step
    BY <1>3 DEF Moved, Like
  <2>2. x.step = 0 /\ ~Resets(w) /\ x.ins["runs"] = {}
    <3>1. PlainShape(x) /\ ~Resets(w)
      BY <1>1, PlainFacts, ResetFacts DEF Resets, ResetShape
    <3> QED BY <1>1, <3>1 DEF PlainShape, Untouched
  <2>3. /\ tx'[w].ins["products"] = x.ins["products"]
        /\ tx'[w].del["products"] = x.del["products"] /\ tx'[w].ins["runs"] = Marked(w)
    <3>1. "products" \in TableNames /\ "runs" \in TableNames
      BY TableFacts
    <3>2. PICK z : /\ Handles(x, z, "runs", Found(w), Marked(w))
                   /\ Handles(z, tx'[w], "records", {}, Answer(w))
      BY <1>3
    <3>3. /\ z.ins["products"] = x.ins["products"] /\ z.del["products"] = x.del["products"]
          /\ z.ins["runs"] = (x.ins["runs"] \ Found(w)) \cup Marked(w)
      BY <3>1, <3>2 DEF Handles
    <3>4. /\ tx'[w].ins["products"] = z.ins["products"] /\ tx'[w].del["products"] = z.del["products"]
          /\ tx'[w].ins["runs"] = z.ins["runs"]
      BY <3>1, <3>2 DEF Handles
    <3> QED BY <2>2, <3>3, <3>4
  <2>4. Inserted(w)' = Inserted(w)
    BY <2>3 DEF Inserted
  <2>5. ImportOK(w)
    BY DEF ImportInv
  <2>6. x.rest = {} /\ x.run # NoRun
    BY <1>1, <2>5 DEF ImportOK
  <2>7. \A s \in Marked(w) : s.key = x.run /\ s.status = "COMMITTED" /\ \E r \in db["runs"] : r.key = x.run /\ s.skus = r.skus
    BY <1>3 DEF Marked, RunRow
  <2>8. \E s \in Marked(w) : TRUE
    BY <1>3 DEF Marked
  <2>9. \A r \in db["runs"] \cup Marked(w) : r.key = x.run => r.skus = Inserted(w) \cup x.rest
    BY <2>5, <2>6, <2>7 DEF ImportOK
  <2>10. x.run # 0 => x.run <= requests /\ \A v \in Workers : tx'[v].request # 0 => tx'[v].request # x.run
    BY <2>1, <2>5 DEF ImportOK, Old, Only
  <2>11. /\ \A p \in x.ins["products"] : p.by = x.run
         /\ x.del["products"] = {}
         /\ x.run = 0 => Inserted(w) \cup x.rest = {PreviewSku}
    BY <2>5, <2>6 DEF ImportOK
  <2>12. ImportOK(w)'
    BY <1>3, <2>1, <2>2, <2>3, <2>4, <2>6, <2>7, <2>8, <2>9, <2>10, <2>11 DEF ImportOK, Old
  <2>13. \A r \in tx'[w].ins["runs"] : r.key = 0 => r.skus = {PreviewSku}
    BY <2>3, <2>7, <2>9, <2>11
  <2>14. ~Resets(w)'
    BY <1>3, <2>1, <2>2 DEF Resets
  <2> QED BY <2>1, <2>12, <2>13, <2>14, ImportStep DEF Older
<1> QED BY <1>2, <1>3, MarkEffect

LEMMA NoImport ==
  ASSUME ImportInv, NEW w \in Workers, tx[w].pc \notin {"create", "mark", "commit"} \/ Resets(w)
  PROVE  tx[w].run = NoRun
<1>1. tx[w].run # NoRun => tx[w].pc \in {"create", "mark", "commit"} /\ tx[w].step = 0
  BY DEF ImportInv, ImportOK
<1> QED BY <1>1 DEF Resets

\* Statements that have nothing to do with products.
LEMMA ImportQuiet ==
  ASSUME Basic, Basic', ImportInv, NEW w \in Workers, Only(w), db' = db, Older(w),
         tx'[w].run = NoRun, tx'[w].step = 0, tx'[w].pc \in {"ensure", "lock", "write", "store", "image"}
  PROVE  ImportInv'
<1>1. ~Resets(w)' /\ ~IsReset(tx'[w])
  BY DEF Resets, IsReset
<1>2. PlainShape(tx'[w])
  BY <1>1 DEF Basic, Shape
<1>3. tx'[w].ins["products"] = {} /\ tx'[w].ins["runs"] = {}
  BY <1>2 DEF PlainShape, Untouched
<1> QED BY <1>1, <1>3, ImportPlain

LEMMA StockImport ==
  ASSUME Basic, ImportInv, NEW w \in Workers, EnsureBalance(w) \/ LockBalance(w) \/ StoreFile(w)
  PROVE  ImportInv'
<1>1. \/ Rolled(w)
      \/ /\ Basic' /\ Only(w) /\ UNCHANGED <<db, requests>> /\ tx[w].pc \in {"ensure", "lock", "store"}
         /\ tx'[w].run = tx[w].run /\ tx'[w].request = tx[w].request /\ tx'[w].step = tx[w].step
         /\ tx'[w].pc \in {"lock", "write", "image"}
  <2>1. CASE EnsureBalance(w)
    BY <2>1, EnsureEffect DEF Moved, Like
  <2>2. CASE LockBalance(w)
    BY <2>2, LockEffect DEF Moved, Like
  <2>3. CASE StoreFile(w)
    BY <2>3, StoreEffect
  <2> QED BY <2>1, <2>2, <2>3
<1>2. CASE Rolled(w)
  BY <1>2, RolledImport
<1>3. CASE /\ Basic' /\ Only(w) /\ UNCHANGED <<db, requests>> /\ tx[w].pc \in {"ensure", "lock", "store"}
           /\ tx'[w].run = tx[w].run /\ tx'[w].request = tx[w].request /\ tx'[w].step = tx[w].step
           /\ tx'[w].pc \in {"lock", "write", "image"}
  <2>1. tx[w].run = NoRun /\ ~Resets(w)
    BY <1>3, NoImport, ResetFacts DEF ResetShape
  <2>2. tx'[w].step = 0
    BY <1>3, <2>1, PlainFacts DEF PlainShape
  <2> QED BY <1>3, <2>1, <2>2, ImportQuiet DEF Older
<1> QED BY <1>1, <1>2, <1>3

LEMMA WriteImport ==
  ASSUME Basic, ImportInv, NEW w \in Workers, WriteStock(w)
  PROVE  ImportInv'
<1>1. tx[w].pc = "write"
  BY StockEffect
<1>2. CASE Rolled(w)
  BY <1>2, RolledImport
<1>3. CASE /\ Moved(w) /\ tx'[w].pc = "commit"
           /\ \E b, z, q : /\ Handles(tx[w], z, "balances", {b}, {[b EXCEPT !.onHand = @ + 1]})
                           /\ Handles(z, q, "movements", {}, Movement(w))
                           /\ Handles(q, tx'[w], "records", {}, Answer(w))
  <2>1. tx[w].run = NoRun /\ ~Resets(w) /\ PlainShape(tx[w])
    BY <1>1, NoImport, PlainFacts, ResetFacts DEF ResetShape
  <2>2. /\ tx[w].ins["products"] = {} /\ tx[w].ins["runs"] = {} /\ tx[w].step = 0
        /\ "products" \in TableNames /\ "runs" \in TableNames
    BY <1>1, <2>1, TableFacts DEF PlainShape, Untouched
  <2>3. tx'[w].ins["products"] = {} /\ tx'[w].ins["runs"] = {}
    BY <1>3, <2>2 DEF Handles
  <2>4. /\ Only(w) /\ db' = db /\ requests' = requests /\ tx'[w].request = tx[w].request
        /\ tx'[w].run = NoRun /\ tx'[w].step = 0
    BY <1>3, <2>1, <2>2 DEF Moved, Like
  <2>5. ~Resets(w)'
    BY <1>3, <2>4 DEF Resets
  <2> QED BY <1>3, <2>3, <2>4, <2>5, ImportPlain DEF Older
<1> QED BY <1>2, <1>3, StockEffect

LEMMA SetImageImport ==
  ASSUME Basic, ImportInv, NEW w \in Workers, SetImage(w)
  PROVE  ImportInv'
<1>1. tx[w].pc = "image" /\ db' = db /\ tx[w].run = NoRun /\ PlainShape(tx[w]) /\ ~Resets(w)
  BY ImageEffect, NoImport, PlainFacts, ResetFacts DEF ResetShape
<1>2. CASE Ended(w) /\ tx'[w] = Undone(tx[w])
  <2>1. tx'[w].pc # "mark"
    BY <1>2, TxGood, UndoneOK
  <2> QED BY <1>1, <1>2, <2>1, ImportBare DEF Ended, Older
<1>3. CASE /\ Moved(w) /\ tx'[w].pc = "publish"
           /\ Handles(tx[w], tx'[w], "products", Found(w), Imaged(w))
           /\ \A p \in Found(w) : p \in db["products"] /\ p \in ProductRow
  <2>1. /\ tx[w].ins["products"] = {} /\ tx[w].ins["runs"] = {} /\ tx[w].step = 0
        /\ "products" \in TableNames /\ "runs" \in TableNames
    BY <1>1, TableFacts DEF PlainShape, Untouched
  <2>2. /\ tx'[w].ins["products"] = Imaged(w) /\ tx'[w].ins["runs"] = {}
        /\ Found(w) \cap db["products"] \subseteq tx'[w].del["products"]
    BY <1>3, <2>1 DEF Handles
  <2>3. \A p \in Imaged(w) : \E s \in Found(w) : SameRow(s, p)
    BY <1>3 DEF Imaged, ProductRow, SameRow
  <2>4. \A p \in tx'[w].ins["products"] : \E s \in tx'[w].del["products"] : SameRow(s, p)
    BY <1>3, <2>2, <2>3
  <2>5. /\ Only(w) /\ db' = db /\ requests' = requests /\ tx'[w].request = tx[w].request
        /\ tx'[w].run = NoRun /\ tx'[w].step = 0
    BY <1>1, <1>3, <2>1 DEF Moved, Like
  <2>6. ~Resets(w)'
    BY <1>3, <2>5 DEF Resets
  <2> QED BY <1>3, <2>2, <2>4, <2>5, <2>6, ImportPlain DEF Older
<1> QED BY <1>2, <1>3, ImageEffect

LEMMA PreviewImport ==
  ASSUME Basic, ImportInv, NEW w \in Workers, RequestPreview(w)
  PROVE  ImportInv'
<1>1. /\ Only(w) /\ db' = db /\ requests' = requests + 1 /\ tx'[w].pc = "commit"
      /\ tx'[w].run = NoRun /\ tx'[w].step = 0 /\ tx'[w].request = requests + 1
      /\ tx'[w].ins["products"] = {} /\ tx'[w].ins["runs"] = Previewed(w)
  BY PreviewEffect, TableFacts
<1>2. \A r \in Previewed(w) : r.key # 0
  <2>1. requests + 1 # 0
    BY CatalogAssumption DEF Basic, TypeOK
  <2> QED BY <2>1 DEF Previewed, Run
<1>3. ~Resets(w)'
  BY <1>1 DEF Resets
<1> QED BY <1>1, <1>2, <1>3, ImportPlain DEF Older

LEMMA RecheckImport ==
  ASSUME Basic, ImportInv, NEW w \in Workers, Recheck(w)
  PROVE  ImportInv'
<1>1. tx[w].pc = "recheck" /\ tx[w].run = NoRun
  BY RecheckEffect, NoImport
<1>2. CASE Rolled(w)
  BY <1>2, RolledImport
<1>3. CASE /\ Only(w) /\ UNCHANGED <<db, requests>> /\ Like(tx[w], tx'[w])
           /\ SameHand(tx[w], tx'[w]) /\ tx'[w].pc = "delete" /\ tx'[w].step = 0
           /\ \A t \in TableNames : tx[w].ins[t] = {}
  <2>1. tx'[w].ins["products"] = {} /\ tx'[w].ins["runs"] = {}
    BY <1>3, TableFacts DEF SameHand
  <2>2. ImportsReset(w)'
    BY <1>3 DEF ImportsReset
  <2> QED BY <1>1, <1>3, <2>1, <2>2, ImportPlain DEF Like, Older
<1> QED BY <1>2, <1>3, RecheckEffect

LEMMA WaitImport ==
  ASSUME Basic, ImportInv, NEW w \in Workers, Wait(w)
  PROVE  ImportInv'
<1>1. /\ Only(w) /\ UNCHANGED <<db, requests>> /\ SameHand(tx[w], tx'[w]) /\ Like(tx[w], tx'[w])
      /\ tx'[w].pc = tx[w].pc /\ tx'[w].step = tx[w].step /\ tx'[w].rest = tx[w].rest
      /\ tx'[w].seen = {r \in Visible(w, Table(w)) : Where(w, r)}
      /\ tx[w].pc \in {"delete", "mark", "lock", "ensure", "write", "image"}
  BY WaitEffect
<1>2. /\ tx'[w].del = tx[w].del /\ tx'[w].ins = tx[w].ins /\ (Resets(w)' <=> Resets(w))
      /\ tx'[w].run = tx[w].run /\ tx'[w].request = tx[w].request
  BY <1>1 DEF SameHand, Resets, Like
<1>3. \A v \in Workers : tx'[v].request = tx[v].request
  BY <1>1, <1>2 DEF Only
<1>4. Inserted(w)' = Inserted(w)
  BY <1>2 DEF Inserted
<1>5. ImportOK(w)'
  BY <1>1, <1>2, <1>3, <1>4 DEF ImportInv, ImportOK, Old
<1>6. ASSUME Resets(w) PROVE ImportsReset(w)'
  <2>1. tx[w].pc = "delete" /\ ResetShape(tx[w]) /\ Table(w) = Deleted[tx[w].step + 1] /\ tx[w].step \in 0 .. 5
    BY <1>1, <1>6, ResetFacts, DeleteStep DEF ResetShape
  <2>2. \A r \in Visible(w, Table(w)) : Knows(w, r)'
    BY <1>1, <2>1 DEF Where, Knows, SameRow
  <2>3. tx[w].step = 5 => \A p \in db["products"] : Knows(w, p)'
    BY <2>1, <2>2 DEF Deleted, Visible, ResetShape
  <2>4. tx[w].step # 6
    BY <2>1
  <2> QED BY <1>1, <2>3, <2>4 DEF ImportsReset
<1>7. \A r \in tx'[w].ins["runs"] : r.key = 0 => r.skus = {PreviewSku}
  BY <1>2 DEF ImportInv, RunsOK
<1> QED BY <1>1, <1>2, <1>5, <1>6, <1>7, ImportStep DEF Older

LEMMA DeleteImport ==
  ASSUME Basic, ImportInv, NEW w \in Workers, DeleteTable(w)
  PROVE  ImportInv'
<1>1. tx[w].pc = "delete" /\ Resets(w) /\ tx[w].run = NoRun
  BY DeleteEffect, NoImport DEF Resets
<1>2. /\ ResetShape(tx[w]) /\ ImportsReset(w) /\ tx[w].step \in 0 .. 5
      /\ Table(w) = Deleted[tx[w].step + 1]
  BY <1>1, DeleteStep DEF ImportInv
<1>3. CASE Rolled(w)
  BY <1>3, RolledImport
<1>4. CASE /\ Basic' /\ Only(w) /\ UNCHANGED <<db, requests>> /\ Like(tx[w], tx'[w])
           /\ tx'[w].waiting = FALSE /\ tx'[w].step = tx[w].step + 1
           /\ tx'[w].pc = (IF tx[w].step = 5 THEN "seed" ELSE "delete")
           /\ Removes(w, Table(w), Found(w))
  <2>1. /\ "runs" \in TableNames /\ "products" \in TableNames /\ db' = db
        /\ Resets(w)' /\ tx'[w].step \in 0 .. 6 /\ tx'[w].pc \in {"delete", "seed"}
        /\ tx'[w].run = NoRun
    BY <1>1, <1>2, <1>4, TableFacts DEF Resets, Like
  <2>2. tx'[w].ins["products"] = {} /\ tx'[w].ins["runs"] = {}
    BY <2>1, <1>4 DEF Basic, Shape, IsReset, Resets, ResetShape
  <2>3. ASSUME tx[w].step = 5 PROVE ImportsReset(w)'
    <3>1. Table(w) = "products" /\ tx[w].del["products"] = {} /\ tx[w].ins["products"] = {}
      BY <1>1, <1>2, <2>1, <2>3 DEF Deleted, ResetShape
    <3>2. /\ tx'[w].del["runs"] = tx[w].del["runs"]
          /\ tx'[w].del["products"] = Found(w)
      <4>1. Handles(tx[w], tx'[w], "products", Found(w), {}) /\ Found(w) \subseteq db["products"]
        BY <1>4, <3>1 DEF Removes
      <4> QED BY <2>1, <3>1, <4>1 DEF Handles
    <3>3. Visible(w, "products") = db["products"]
      BY <3>1 DEF Visible
    <3>4. ASSUME NEW p \in db["products"], tx[w].waiting => Knows(w, p) PROVE p \in Found(w)
      BY <1>1, <3>1, <3>3, <3>4, DeleteFound
    <3>5. ASSUME NEW p \in Found(w), tx[w].waiting PROVE Knows(w, p)
      BY <3>5 DEF Found, Versions, Target, Seen, Knows
    <3>6. \A p \in db["products"] : (\E r \in tx[w].del["runs"] : r.key = p.by) => p \in Found(w)
      BY <1>1, <1>2, <2>3, <3>4 DEF ImportsReset
    <3>7. \A p, q \in db["products"] : p.by = q.by /\ p.by # NoRun /\ p \in Found(w) => q \in Found(w)
      BY <1>1, <1>2, <2>3, <3>4, <3>5 DEF ImportsReset
    <3>8. tx'[w].pc # "delete"
      BY <1>4, <2>3
    <3> QED BY <2>1, <3>2, <3>6, <3>7, <3>8 DEF ImportsReset
  <2>4. ASSUME tx[w].step # 5 PROVE ImportsReset(w)'
    <3>1. tx'[w].step # 6
      BY <1>2, <1>4, <2>4
    <3> QED BY <1>4, <3>1 DEF ImportsReset
  <2>5. tx'[w].request = tx[w].request /\ requests' = requests /\ tx'[w].pc # "mark"
    BY <1>4, <2>1 DEF Like
  <2> QED BY <1>4, <2>1, <2>2, <2>3, <2>4, <2>5, ImportPlain DEF Older
<1> QED BY <1>3, <1>4, DeleteEffect

LEMMA SeedImport ==
  ASSUME Basic, ImportInv, NEW w \in Workers, Seed(w)
  PROVE  ImportInv'
<1>1. tx[w].pc = "seed" /\ Resets(w) /\ tx[w].run = NoRun
  BY SeedEffect, NoImport DEF Resets
<1>2. ImportsReset(w) /\ tx[w].step \in 0 .. 6 /\ tx[w].request \in Nat /\ tx[w].step = 6
  <2>1. ResetShape(tx[w]) /\ tx[w].step \in 0 .. 6 /\ tx[w].request \in Nat
    BY <1>1, ResetFacts, TxGood DEF Transaction
  <2> QED BY <1>1, <2>1 DEF ImportInv, ResetShape
<1>3. CASE Rolled(w)
  BY <1>3, RolledImport
<1>4. CASE /\ Only(w) /\ UNCHANGED <<db, requests>> /\ Like(tx[w], tx'[w])
           /\ tx'[w].step = tx[w].step /\ tx'[w].pc = "commit" /\ tx'[w].del = tx[w].del
           /\ \A t \in TableNames \ {"records"} : tx'[w].ins[t] = Fixture(tx[w].request)[t]
  <2> DEFINE f == Product(FixtureSku, 0, tx[w].request, NoRun, 0)
             r == Run(0, tx[w].request, "PREVIEW", {PreviewSku})
  <2>1. tx'[w].ins["products"] = {f} /\ tx'[w].ins["runs"] = {r}
    <3>1. Fixture(tx[w].request)["products"] = {f} /\ Fixture(tx[w].request)["runs"] = {r}
      BY <1>2, FixtureFacts
    <3>2. "products" \in TableNames \ {"records"} /\ "runs" \in TableNames \ {"records"}
      BY TableFacts
    <3> QED BY <1>4, <3>1, <3>2
  <2>2. f.by = NoRun /\ r.skus = {PreviewSku}
    BY DEF Product, Run
  <2> HIDE DEF f, r
  <2>3. ImportsReset(w)'
    BY <1>2, <1>4 DEF ImportsReset
  <2>4. tx'[w].run = NoRun /\ tx'[w].request = tx[w].request
    BY <1>1, <1>4 DEF Like
  <2> QED BY <1>4, <2>1, <2>2, <2>3, <2>4, ImportPlain DEF Older
<1> QED BY <1>3, <1>4, SeedEffect

-----------------------------------------------------------------------------
(* Imports and commits.                                                     *)

Lands(w) == \A t \in TableNames : db'[t] = Visible(w, t)

\* What a commit adds to the products: rows that were there, changed, and the
\* products of its import, of which there were none.
LEMMA ImportedRow ==
  ASSUME Basic, ImportInv, NEW w \in Workers, tx[w].pc \in {"commit", "publish"},
         NEW p \in tx[w].ins["products"], p.by # NoRun
  PROVE  /\ ~Resets(w)
         /\ \/ \E q \in tx[w].del["products"] : SameRow(q, p) /\ q.by = p.by
            \/ /\ p.by = tx[w].run /\ p.born = tx[w].request /\ tx[w].request # 0
               /\ tx[w].pc = "commit" /\ tx[w].rest = {}
               /\ \E r \in tx[w].ins["runs"] : r.key = tx[w].run /\ r.status = "COMMITTED"
               /\ \A q \in db["products"] : q.by # p.by
<1>1. ~Resets(w)
  <2>1. ASSUME Resets(w) PROVE FALSE
    <3>1. tx[w].pc = "commit"
      BY <2>1, ResetFacts DEF ResetShape
    <3>2. \E f : tx[w].ins["products"] = {f} /\ f.by = NoRun
      BY <2>1, <3>1, Seeded
    <3> QED BY <3>2
  <2> QED BY <2>1
<1>2. "products" \in TableNames /\ "runs" \in TableNames
  BY TableFacts
<1>3. PlainShape(tx[w]) /\ ImportOK(w)
  BY <1>1, PlainFacts DEF ImportInv
<1>4. ASSUME NEW s \in tx[w].del["products"], SameRow(s, p)
      PROVE  \E q \in tx[w].del["products"] : SameRow(q, p) /\ q.by = p.by
  <2>1. PICK q \in tx[w].ins["products"] : SameRow(q, s) /\ q.by = s.by
    BY <1>3 DEF PlainShape, Keeps
  <2>2. Unique(Visible(w, "products"))
    BY <1>2 DEF Basic, Isolation, TableIsolated
  <2>3. q = p
    BY <1>4, <2>1, <2>2 DEF Unique, Visible, SameRow
  <2> QED BY <1>4, <2>1, <2>3
<1>5. ASSUME \A s \in tx[w].del["products"] : ~SameRow(s, p)
      PROVE  /\ p.by = tx[w].run /\ p.born = tx[w].request /\ tx[w].request # 0
             /\ tx[w].pc = "commit" /\ tx[w].rest = {}
             /\ \E r \in tx[w].ins["runs"] : r.key = tx[w].run /\ r.status = "COMMITTED"
             /\ \A q \in db["products"] : q.by # p.by
  <2>1. p.by = tx[w].run /\ tx[w].run # NoRun
    BY <1>3, <1>5 DEF ImportOK
  <2>2. p.born = tx[w].request /\ tx[w].request # 0
    BY <1>2, <1>5 DEF Basic, Isolation, TableIsolated
  <2>3. /\ tx[w].pc = "commit" /\ tx[w].rest = {} /\ tx[w].del["products"] = {}
        /\ \E r \in tx[w].ins["runs"] : r.key = tx[w].run /\ r.status = "COMMITTED"
        /\ \A r \in db["runs"] \cup tx[w].ins["runs"] : r.key = tx[w].run => r.skus = Inserted(w) \cup tx[w].rest
    BY <1>3, <2>1 DEF ImportOK
  <2>4. ASSUME NEW q \in db["products"], q.by = p.by PROVE FALSE
    <3>1. PICK run \in db["runs"] :
            /\ run.key = q.by /\ \A sku \in run.skus : \E u \in db["products"] : u.key = sku /\ u.by = run.key
      BY <2>1, <2>4 DEF ImportInv, ImportedWhole
    <3>2. p.key \in run.skus
      BY <2>1, <2>3, <2>4, <3>1 DEF Inserted
    <3>3. PICK u \in db["products"] : u.key = p.key
      BY <3>1, <3>2
    <3>4. u = p
      BY <1>2, <2>3, <3>3 DEF Basic, Isolation, TableIsolated, Unique, Visible
    <3> QED BY <1>2, <2>3, <3>4 DEF Basic, Isolation, TableIsolated
  <2> QED BY <2>1, <2>2, <2>3, <2>4
<1> QED BY <1>1, <1>4, <1>5

LEMMA CommitKeepsOld ==
  ASSUME Basic, NEW w \in Workers, Ended(w), NEW n \in Int, Old(n)
  PROVE  Old(n)'
BY CatalogAssumption, OldStays DEF Ended, Basic, TypeOK

LEMMA CommitRunsOK ==
  ASSUME Basic, ImportInv, NEW w \in Workers, Ended(w), Lands(w)
  PROVE  RunsOK'
<1>1. "runs" \in TableNames /\ tx'[w].ins["runs"] = {}
  BY TableFacts, NoneEmpty DEF Ended, Bare
<1>2. \A v \in Workers : tx'[v].ins["runs"] \subseteq tx[v].ins["runs"]
  BY <1>1 DEF Ended, Only
<1>3. db'["runs"] \subseteq db["runs"] \cup tx[w].ins["runs"]
  BY <1>1 DEF Lands, Visible
<1> QED BY <1>2, <1>3 DEF ImportInv, RunsOK

LEMMA CommitOthersImport ==
  ASSUME Basic, ImportInv, NEW w \in Workers, Ended(w), tx[w].pc \in {"commit", "publish"}, Lands(w),
         NEW v \in Workers \ {w}
  PROVE  ImportOK(v)'
<1> DEFINE x == tx[v]
<1>1. tx'[v] = x /\ Inserted(v)' = Inserted(v) /\ ImportOK(v)
  BY DEF Ended, Only, Inserted, ImportInv
<1>2. "runs" \in TableNames
  BY TableFacts
<1>3. x.run \in Int
  BY TxGood, CatalogAssumption DEF Transaction, NoRun
<1>4. \A n \in Int : Old(n) => n <= requests' /\ \A u \in Workers : tx'[u].request # 0 => tx'[u].request # n
  BY CommitKeepsOld DEF Old
<1>5. x.run # 0 => x.run <= requests' /\ \A u \in Workers : tx'[u].request # 0 => tx'[u].request # x.run
  BY <1>1, <1>3, <1>4 DEF ImportOK
<1>6. ASSUME x.run # NoRun, NEW r \in db'["runs"], r.key = x.run
      PROVE  r.skus = Inserted(v) \cup x.rest
  <2>1. CASE r \in db["runs"]
    BY <1>1, <1>6, <2>1 DEF ImportOK
  <2>2. CASE x.run = 0
    <3>1. r.skus = {PreviewSku}
      BY <1>6, <2>2, CommitRunsOK DEF RunsOK
    <3>2. Inserted(v) \cup x.rest = {PreviewSku}
      BY <1>1, <1>6, <2>2 DEF ImportOK
    <3> QED BY <3>1, <3>2
  <2>3. ASSUME r \in tx[w].ins["runs"], x.run # 0 PROVE r.skus = Inserted(v) \cup x.rest
    <3>1. r.born = x.run
      BY <1>2, <1>6, <2>3 DEF Basic, Isolation, TableIsolated, Numbered
    <3>2. r.born # tx[w].request \/ tx[w].request = 0
      BY <1>1, <2>3, <3>1 DEF ImportOK, Old
    <3>3. PICK s \in tx[w].del["runs"] : SameRow(s, r)
      BY <1>2, <2>3, <3>2 DEF Basic, Isolation, TableIsolated
    <3>4. s \in db["runs"] /\ s.key = x.run
      BY <1>2, <1>6, <3>3 DEF Basic, Isolation, TableIsolated, SameRow
    <3>5. PlainShape(tx[w])
      <4>1. ASSUME IsReset(tx[w]), tx[w].ins["runs"] = Fixture(tx[w].request)["runs"],
                   tx[w].request \in 0 .. MaxRequests
            PROVE  FALSE
        <5>1. r \in {Run(0, tx[w].request, "PREVIEW", {PreviewSku})}
          <6>1. tx[w].request \in Nat
            BY <4>1, CatalogAssumption
          <6>2. Fixture(tx[w].request)["runs"] = {Run(0, tx[w].request, "PREVIEW", {PreviewSku})}
            BY <6>1, FixtureFacts
          <6> QED BY <2>3, <4>1, <6>2
        <5>2. r.key = 0
          BY <5>1 DEF Run
        <5> QED BY <1>6, <2>3, <5>2
      <4>2. "runs" \in TableNames \ {"records"}
        BY <1>2
      <4> QED BY <4>1, <4>2, CommitShape
    <3>6. PICK q \in tx[w].ins["runs"] : SameRow(q, s) /\ q.skus = s.skus
      BY <3>3, <3>5 DEF PlainShape, Keeps
    <3>7. q = r
      BY <1>2, <2>3, <3>3, <3>6 DEF Basic, Isolation, TableIsolated, Unique, Visible, SameRow
    <3>8. s.skus = Inserted(v) \cup x.rest
      BY <1>1, <1>6, <3>4 DEF ImportOK
    <3> QED BY <3>6, <3>7, <3>8
  <2>4. r \in db["runs"] \cup tx[w].ins["runs"]
    BY <1>2 DEF Lands, Visible
  <2> QED BY <2>1, <2>2, <2>3, <2>4
<1> QED BY <1>1, <1>5, <1>6 DEF ImportOK, Old

\* What a commit brings is not what a reset that is under way has met.
LEMMA CommitReset ==
  ASSUME Basic, ImportInv, NEW w \in Workers, Ended(w), tx[w].pc \in {"commit", "publish"}, Lands(w),
         NEW v \in Workers \ {w}, Resets(v)
  PROVE  ImportsReset(v)'
<1>1. tx'[v] = tx[v] /\ ImportsReset(v) /\ ResetShape(tx[v])
  BY ResetFacts DEF Ended, Only, ImportInv
<1>2. "products" \in TableNames /\ "runs" \in TableNames
  BY TableFacts
<1>3. \A p \in db'["products"] : p \in db["products"] \/ p \in tx[w].ins["products"]
  BY <1>2 DEF Lands, Visible
<1>4. \A r \in tx[v].del["runs"] : r \in db["runs"] /\ r.key # NoRun
  <2>1. \A r \in db["runs"] : r.key # NoRun
    BY RunTyped DEF NoRun
  <2> QED BY <1>2, <2>1 DEF Basic, Isolation, TableIsolated
<1>5. \A r \in tx[v].del["runs"], s \in tx[w].ins["runs"] : r.key # s.key
  BY <1>2, OwnKey DEF Owned
<1>6. \A p \in tx[v].del["products"], q \in tx[w].del["products"] : p.key # q.key
  BY <1>2, OwnKey DEF Owned
<1>7. tx[w].del["products"] \subseteq db["products"] /\ tx[v].del["products"] \subseteq db["products"]
  BY <1>2 DEF Basic, Isolation, TableIsolated
<1>8. \A x \in tx[v].seen : tx[w].request # 0 => x.born # tx[w].request
  BY DEF Basic, Isolation, Births
<1>9. \A p, q : SameRow(p, q) => (Knows(v, p) <=> Knows(v, q))
  BY DEF Knows, SameRow
<1>10. \A p : Knows(v, p)' <=> Knows(v, p)
  BY <1>1 DEF Knows
<1>11. ASSUME tx[v].pc = "delete", tx[v].step = 5, tx[v].waiting
       PROVE  /\ \A p \in db'["products"] : (\E r \in tx[v].del["runs"] : r.key = p.by) => Knows(v, p)
              /\ \A p, q \in db'["products"] : p.by = q.by /\ p.by # NoRun /\ Knows(v, p) => Knows(v, q)
  <2>1. ASSUME NEW p \in db'["products"], NEW r \in tx[v].del["runs"], r.key = p.by PROVE Knows(v, p)
    <3>1. CASE p \in db["products"]
      BY <1>1, <1>11, <2>1, <3>1 DEF ImportsReset
    <3>2. CASE p \in tx[w].ins["products"]
      <4>1. p.by # NoRun
        BY <1>4, <2>1
      <4>2. PICK q \in tx[w].del["products"] : SameRow(q, p) /\ q.by = p.by
        BY <1>5, <2>1, <3>2, <4>1, ImportedRow
      <4>3. Knows(v, q)
        BY <1>1, <1>7, <1>11, <2>1, <4>2 DEF ImportsReset
      <4> QED BY <1>9, <4>2, <4>3
    <3> QED BY <1>3, <3>1, <3>2
  <2>2. ASSUME NEW p \in db'["products"], NEW q \in db'["products"], p.by = q.by, p.by # NoRun, Knows(v, p)
        PROVE  Knows(v, q)
    <3>1. PICK a \in db["products"] : a.by = p.by /\ Knows(v, a)
      <4>1. CASE p \in db["products"]
        BY <2>2, <4>1
      <4>2. CASE p \in tx[w].ins["products"]
        <5>1. ~(p.born = tx[w].request /\ tx[w].request # 0)
          BY <1>8, <2>2 DEF Knows, SameRow
        <5>2. PICK a \in tx[w].del["products"] : SameRow(a, p) /\ a.by = p.by
          BY <2>2, <4>2, <5>1, ImportedRow
        <5> QED BY <1>7, <1>9, <2>2, <5>2
      <4> QED BY <1>3, <4>1, <4>2
    <3>2. PICK b \in db["products"] : b.by = q.by /\ (SameRow(b, q) \/ b = q)
      <4>1. CASE q \in db["products"]
        BY <4>1
      <4>2. CASE q \in tx[w].ins["products"]
        <5>1. PICK b \in tx[w].del["products"] : SameRow(b, q) /\ b.by = q.by
          BY <2>2, <3>1, <4>2, ImportedRow
        <5> QED BY <1>7, <5>1
      <4> QED BY <1>3, <4>1, <4>2
    <3>3. Knows(v, b)
      BY <1>1, <1>11, <2>2, <3>1, <3>2 DEF ImportsReset
    <3> QED BY <1>9, <3>2, <3>3
  <2> QED BY <2>1, <2>2
<1>12. ASSUME tx[v].step = 6
       PROVE  /\ \A p \in db'["products"] : (\E r \in tx[v].del["runs"] : r.key = p.by) => p \in tx[v].del["products"]
              /\ \A p, q \in db'["products"] :
                   p.by = q.by /\ p.by # NoRun /\ p \in tx[v].del["products"] => q \in tx[v].del["products"]
  <2>1. ASSUME NEW p \in db'["products"], NEW r \in tx[v].del["runs"], r.key = p.by
        PROVE  p \in tx[v].del["products"]
    <3>1. CASE p \in db["products"]
      BY <1>1, <1>12, <2>1, <3>1 DEF ImportsReset
    <3>2. CASE p \in tx[w].ins["products"]
      <4>1. p.by # NoRun
        BY <1>4, <2>1
      <4>2. PICK q \in tx[w].del["products"] : SameRow(q, p) /\ q.by = p.by
        BY <1>5, <2>1, <3>2, <4>1, ImportedRow
      <4>3. q \in tx[v].del["products"]
        BY <1>1, <1>7, <1>12, <2>1, <4>2 DEF ImportsReset
      <4> QED BY <1>6, <4>2, <4>3
    <3> QED BY <1>3, <3>1, <3>2
  <2>2. ASSUME NEW p \in tx[v].del["products"], NEW q \in db'["products"], p.by = q.by, p.by # NoRun
        PROVE  q \in tx[v].del["products"]
    <3>1. CASE q \in db["products"]
      BY <1>1, <1>7, <1>12, <2>2, <3>1 DEF ImportsReset
    <3>2. CASE q \in tx[w].ins["products"]
      <4>1. PICK b \in tx[w].del["products"] : SameRow(b, q) /\ b.by = q.by
        BY <1>7, <2>2, <3>2, ImportedRow
      <4>2. b \in tx[v].del["products"]
        BY <1>1, <1>7, <1>12, <2>2, <4>1 DEF ImportsReset
      <4> QED BY <1>6, <4>1, <4>2
    <3> QED BY <1>3, <3>1, <3>2
  <2> QED BY <2>1, <2>2
<1> QED BY <1>1, <1>10, <1>11, <1>12 DEF ImportsReset

LEMMA PlainCommitWhole ==
  ASSUME Basic, ImportInv, NEW w \in Workers, Ended(w), tx[w].pc \in {"commit", "publish"}, Lands(w),
         ~Resets(w)
  PROVE  ImportedWhole'
<1>1. "products" \in TableNames /\ "runs" \in TableNames
  BY TableFacts
<1>2. PlainShape(tx[w]) /\ KeptProducts
  BY <1>1, PlainFacts, PlainProducts DEF Lands
<1>3. ASSUME NEW a \in db["products"], a.by # NoRun
      PROVE  \E run \in db'["runs"] :
               /\ run.key = a.by /\ run.status = "COMMITTED"
               /\ \A sku \in run.skus : \E q \in db'["products"] : q.key = sku /\ q.by = run.key
  <2>1. PICK run \in db["runs"] :
          /\ run.key = a.by /\ run.status = "COMMITTED"
          /\ \A sku \in run.skus : \E q \in db["products"] : q.key = sku /\ q.by = run.key
    BY <1>3 DEF ImportInv, ImportedWhole
  <2>2. PICK new \in db'["runs"] : new.key = run.key /\ new.status = "COMMITTED" /\ new.skus = run.skus
    <3>1. CASE run \in tx[w].del["runs"]
      BY <1>1, <1>2, <3>1 DEF PlainShape, Keeps, SameRow, Lands, Visible
    <3>2. CASE run \notin tx[w].del["runs"]
      BY <1>1, <2>1, <3>2 DEF Lands, Visible
    <3> QED BY <3>1, <3>2
  <2>3. \A q \in db["products"] : \E s \in db'["products"] : s.key = q.key /\ s.by = q.by
    BY <1>2 DEF KeptProducts, SameRow
  <2>4. \A sku \in new.skus : \E s \in db'["products"] : s.key = sku /\ s.by = new.key
    BY <2>1, <2>2, <2>3
  <2> QED BY <2>1, <2>2, <2>4
<1>4. ASSUME NEW p \in db'["products"], p.by # NoRun
      PROVE  \E run \in db'["runs"] :
               /\ run.key = p.by /\ run.status = "COMMITTED"
               /\ \A sku \in run.skus : \E q \in db'["products"] : q.key = sku /\ q.by = run.key
  <2>1. CASE \E a \in db["products"] : a.by = p.by
    BY <1>3, <1>4, <2>1
  <2>2. CASE /\ p.by = tx[w].run /\ tx[w].rest = {} /\ tx[w].pc = "commit"
             /\ \E r \in tx[w].ins["runs"] : r.key = tx[w].run /\ r.status = "COMMITTED"
    <3>1. PICK r \in tx[w].ins["runs"] : r.key = tx[w].run /\ r.status = "COMMITTED"
      BY <2>2
    <3>2. ImportOK(w)
      BY DEF ImportInv
    <3>3. r.skus = Inserted(w) /\ \A q \in tx[w].ins["products"] : q.by = r.key
      BY <1>4, <2>2, <3>1, <3>2 DEF ImportOK
    <3>4. tx[w].ins["products"] \subseteq db'["products"] /\ r \in db'["runs"]
      BY <1>1, <3>1 DEF Lands, Visible
    <3> QED BY <2>2, <3>1, <3>3, <3>4 DEF Inserted
  <2>3. p \in db["products"] \/ p \in tx[w].ins["products"]
    BY <1>1 DEF Lands, Visible
  <2>4. tx[w].del["products"] \subseteq db["products"]
    BY <1>1 DEF Basic, Isolation, TableIsolated
  <2> QED BY <1>4, <2>1, <2>2, <2>3, <2>4, ImportedRow
<1> QED BY <1>4 DEF ImportedWhole

LEMMA ResetCommitWhole ==
  ASSUME Basic, ImportInv, NEW w \in Workers, tx[w].pc \in {"commit", "publish"}, Lands(w), Resets(w)
  PROVE  ImportedWhole'
<1>1. "products" \in TableNames /\ "runs" \in TableNames
  BY TableFacts
<1>2. tx[w].step = 6 /\ ImportsReset(w)
  BY ResetFacts, Seeded DEF ResetShape, ImportInv
<1>3. ASSUME NEW p \in db'["products"], p.by # NoRun
      PROVE  \E run \in db'["runs"] :
               /\ run.key = p.by /\ run.status = "COMMITTED"
               /\ \A sku \in run.skus : \E q \in db'["products"] : q.key = sku /\ q.by = run.key
  <2>1. p \in db["products"] /\ p \notin tx[w].del["products"]
    BY <1>1, <1>3, ImportedRow DEF Lands, Visible
  <2>2. PICK run \in db["runs"] :
          /\ run.key = p.by /\ run.status = "COMMITTED"
          /\ \A sku \in run.skus : \E q \in db["products"] : q.key = sku /\ q.by = run.key
    BY <1>3, <2>1 DEF ImportInv, ImportedWhole
  <2>3. run \in db'["runs"]
    BY <1>1, <1>2, <2>1, <2>2 DEF ImportsReset, Lands, Visible
  <2>4. \A q \in db["products"] : q.by = p.by => q \in db'["products"]
    BY <1>1, <1>2, <1>3, <2>1 DEF ImportsReset, Lands, Visible
  <2> QED BY <2>2, <2>3, <2>4
<1> QED BY <1>3 DEF ImportedWhole

LEMMA EndedImport ==
  ASSUME Basic, ImportInv, NEW w \in Workers, Ended(w), tx'[w].pc \notin {"mark", "delete", "seed"},
         tx[w].pc \in {"commit", "publish"}, db' = db \/ Lands(w)
  PROVE  ImportInv'
<1>1. CASE db' = db
  BY <1>1, ImportBare DEF Ended, Older
<1>2. CASE Lands(w)
  <2>1. ImportedWhole'
    BY <1>2, PlainCommitWhole, ResetCommitWhole
  <2>2. ImportOK(w)'
    <3>1. tx'[w].ins["products"] = {} /\ tx'[w].run = NoRun
      BY NoneEmpty, TableFacts DEF Ended, Bare
    <3>2. NoRun \in Int /\ Old(NoRun)
      <4>1. requests \in Nat /\ \A v \in Workers : tx[v].request \in Nat
        BY TxGood, CatalogAssumption DEF Transaction, Basic, TypeOK
      <4> QED BY <4>1 DEF NoRun, Old
    <3>3. Old(NoRun)'
      BY <3>2, CommitKeepsOld
    <3> QED BY <3>1, <3>3 DEF ImportOK, Old, NoRun
  <2>3. \A v \in Workers \ {w} : ImportOK(v)'
    BY <1>2, CommitOthersImport
  <2>4. ASSUME NEW v \in Workers, Resets(v)' PROVE ImportsReset(v)'
    <3>1. v # w
      BY <2>4 DEF Ended, Bare, Resets
    <3>2. Resets(v)
      BY <2>4, <3>1 DEF Ended, Only, Resets
    <3> QED BY <1>2, <3>1, <3>2, CommitReset
  <2> QED BY <1>2, <2>1, <2>2, <2>3, <2>4, CommitRunsOK DEF ImportInv
<1> QED BY <1>1, <1>2

LEMMA CommitImport ==
  ASSUME Basic, ImportInv, NEW w \in Workers, Commit(w)
  PROVE  ImportInv'
<1>1. tx[w].pc = "commit" /\ Ended(w) /\ tx'[w] = Idle /\ Lands(w)
  BY CommitEffect DEF Lands
<1>2. Idle.pc = "idle"
  BY IdleShape
<1> QED BY <1>1, <1>2, EndedImport

LEMMA CommitImageImport ==
  ASSUME Basic, ImportInv, NEW w \in Workers, CommitImage(w)
  PROVE  ImportInv'
<1>1. Good(tx[w])
  BY TxGood
<1>2. Afterwards(tx[w]).pc \notin {"mark", "delete", "seed"} /\ Undone(tx[w]).pc \notin {"mark", "delete", "seed"}
  BY <1>1, AfterwardsOK, UndoneOK
<1>3. tx[w].pc = "publish" /\ Ended(w) /\ (db' = db \/ Lands(w))
  BY CommitImageEffect DEF Lands
<1>4. tx'[w] \in {Afterwards(tx[w]), Undone(tx[w])}
  BY CommitImageEffect
<1> QED BY <1>2, <1>3, <1>4, EndedImport

-----------------------------------------------------------------------------
(* Images.                                                                  *)

ImageInv ==
  /\ ImagesOK /\ ImageStored
  /\ \A w \in Workers : ImageOK(w)

LEMMA AllRows ==
  \A p : p \in AllProducts <=> p \in db["products"] \/ \E v \in Workers : p \in tx[v].ins["products"]
BY DEF AllProducts

LEMMA AllRowsNext ==
  \A p : p \in AllProducts' <=> p \in db'["products"] \/ \E v \in Workers : p \in tx'[v].ins["products"]
BY DEF AllProducts

LEMMA ImagesTyped ==
  ASSUME Basic
  PROVE  /\ requests \in Nat
         /\ \A p \in db["products"] : p.image \in Nat
         /\ \A v \in Workers : tx[v].image \in Nat /\ tx[v].old \in Nat /\ tx[v].request \in Nat
<1>1. requests \in Nat
  BY CatalogAssumption DEF Basic, TypeOK
<1>2. \A p \in db["products"] : p.image \in Nat
  BY ProductTyped
<1>3. \A v \in Workers : tx[v].image \in Nat /\ tx[v].old \in Nat /\ tx[v].request \in Nat
  BY TxGood DEF Transaction
<1> QED BY <1>1, <1>2, <1>3

\* An image that begins to be used has the number of the request that uploaded
\* it, and no row had it before.
LEMMA FreshImage ==
  ASSUME Basic, ImageInv, NEW w \in Workers, tx[w].pc = "image", tx[w].request # 0
  PROVE  \A q \in AllProducts : q.image # tx[w].request
<1>1. "products" \in TableNames
  BY TableFacts
<1>2. ASSUME NEW q \in db["products"] PROVE q.image # tx[w].request
  BY <1>2 DEF ImageInv, ImagesOK, Old
<1>3. ASSUME NEW v \in Workers, NEW q \in tx[v].ins["products"] PROVE q.image # tx[w].request
  <2>1. ImageOK(v)
    BY DEF ImageInv
  <2>2. q.image \in {0, tx[v].image}
    BY <1>3, <2>1 DEF ImageOK
  <2>3. CASE tx[v].pc \in {"store", "image", "idle", "cleanup", "undo"}
    <3>1. ~Resets(v)
      BY <2>3, ResetFacts DEF Resets, ResetShape
    <3>2. PlainShape(tx[v])
      BY <3>1, PlainFacts
    <3>3. Untouched(tx[v], "products")
      BY <2>3, <3>2 DEF PlainShape
    <3> QED BY <1>3, <3>3 DEF Untouched
  <2>4. CASE tx[v].pc = "publish"
    <3>1. tx[v].image # 0 => tx[v].image = tx[v].request
      BY <2>1, <2>4 DEF ImageOK, Setting
    <3>2. v # w
      BY <2>4
    <3>3. tx[v].request # tx[w].request
      BY <3>2 DEF Basic, Isolation, Births
    <3> QED BY <2>2, <3>1, <3>3
  <2>5. CASE tx[v].pc \notin {"store", "image", "publish", "idle", "cleanup", "undo"}
    <3>1. tx[v].image = 0
      BY <2>1, <2>5 DEF ImageOK, Setting
    <3> QED BY <2>2, <3>1
  <2> QED BY <2>3, <2>4, <2>5
<1> QED BY <1>2, <1>3, AllRows

\* A row with a new image.
NewImage(w, p) ==
  /\ tx[w].pc = "image" /\ tx[w].request # 0
  /\ p.image = tx[w].request /\ ProductId(p) = tx[w].product

\* A file that goes is no upload under way, and no row's that is not excused.
MayGo(n) == Old(n) /\ \A p \in db'["products"] : p.image = n /\ n # 0 => n \in lost'

LEMMA ImageStep ==
  ASSUME Basic, ImageInv, NEW w \in Workers, Only(w), Older(w),
         lost \subseteq lost', \A n \in files : n \in files' \/ MayGo(n),
         \A p \in AllProducts' : p.image # 0 => p \in AllProducts \/ NewImage(w, p),
         \A p \in db'["products"] : p.image # 0 /\ p \notin db["products"] =>
           p.image = tx[w].request /\ tx'[w].request = 0 /\ p.image \in files,
         ImageOK(w)'
  PROVE  ImageInv'
<1>1. \A n \in Int : Old(n) => Old(n)'
  BY ImagesTyped, OldStays DEF Older
<1>2. \A n \in Int : Old(n) => n <= requests' /\ \A u \in Workers : tx'[u].request # 0 => tx'[u].request # n
  BY <1>1 DEF Old
<1>3. ASSUME NEW v \in Workers \ {w} PROVE ImageOK(v)'
  <2> DEFINE x == tx[v]
  <2>1. tx'[v] = x /\ ImageOK(v)
    BY DEF Only, ImageInv
  <2>2. x.old \in Int /\ x.image \in Int /\ x.request \in Int
    BY ImagesTyped
  <2>3. x.old # 0 => Old(x.old)
    BY <2>1 DEF ImageOK
  <2>4. x.old # 0 => x.old <= requests' /\ \A u \in Workers : tx'[u].request # 0 => tx'[u].request # x.old
    BY <1>2, <2>2, <2>3
  <2>5. ASSUME x.old # 0, NEW p \in AllProducts', p.image = x.old PROVE p \in AllProducts
    BY <2>3, <2>5 DEF NewImage, Old
  <2>6. ASSUME x.pc \in {"store", "image", "publish"}, x.image # 0 PROVE x.image = x.request /\ x.image \in files'
    <3>1. x.image = x.request /\ x.image \in files
      BY <2>1, <2>6 DEF ImageOK, Setting
    <3>2. ~MayGo(x.image)
      BY <2>6, <3>1 DEF MayGo, Old
    <3> QED BY <3>1, <3>2
  <2>7. ASSUME x.pc \in {"store", "image", "publish"}, x.old # 0, NEW p \in AllProducts', p.image = x.old
        PROVE  ProductId(p) = x.product
    BY <2>1, <2>5, <2>7 DEF ImageOK, Setting
  <2>8. ASSUME x.pc = "cleanup" PROVE x.old # 0 /\ \A p \in AllProducts' : p.image # x.old
    BY <2>1, <2>5, <2>8 DEF ImageOK
  <2>9. ASSUME x.pc = "undo"
        PROVE  /\ x.image # 0 /\ x.image <= requests'
               /\ \A u \in Workers : tx'[u].request # 0 => tx'[u].request # x.image
               /\ \A p \in db'["products"] : p.image = x.image => p.image \in lost'
    <3>1. /\ x.image # 0 /\ Old(x.image)
          /\ \A p \in db["products"] : p.image = x.image => p.image \in lost
      BY <2>1, <2>9 DEF ImageOK
    <3>2. x.image <= requests' /\ \A u \in Workers : tx'[u].request # 0 => tx'[u].request # x.image
      BY <1>2, <2>2, <3>1
    <3>3. \A p \in db'["products"] : p.image = x.image => p.image \in lost'
      BY <3>1 DEF Old
    <3> QED BY <3>1, <3>2, <3>3
  <2> QED BY <2>1, <2>4, <2>6, <2>7, <2>8, <2>9 DEF ImageOK, Setting, Old
<1>4. ImagesOK'
  <2>1. ASSUME NEW p \in db'["products"], p.image # 0
        PROVE  p.image <= requests' /\ \A u \in Workers : tx'[u].request # 0 => tx'[u].request # p.image
    <3>1. CASE p \in db["products"]
      BY <1>2, <2>1, <3>1, ImagesTyped DEF ImageInv, ImagesOK
    <3>2. CASE p \notin db["products"]
      <4>1. p.image = tx[w].request /\ tx'[w].request = 0
        BY <2>1, <3>2
      <4>2. tx[w].request <= requests /\ \A u \in Workers \ {w} : tx[u].request # tx[w].request
        BY <2>1, <4>1 DEF Basic, Isolation, Births
      <4>3. requests' = requests
        BY <4>1, ImagesTyped DEF Older
      <4> QED BY <4>1, <4>2, <4>3 DEF Only
    <3> QED BY <3>1, <3>2
  <2>2. ASSUME NEW p \in AllProducts', NEW q \in AllProducts', p.image = q.image, p.image # 0
        PROVE  ProductId(p) = ProductId(q)
    <3>1. CASE p \in AllProducts /\ q \in AllProducts
      BY <2>2, <3>1 DEF ImageInv, ImagesOK
    <3>2. CASE NewImage(w, p) \/ NewImage(w, q)
      <4>1. tx[w].pc = "image" /\ tx[w].request # 0 /\ p.image = tx[w].request
        BY <2>2, <3>2 DEF NewImage
      <4>2. p \notin AllProducts /\ q \notin AllProducts
        BY <2>2, <4>1, FreshImage
      <4> QED BY <2>2, <4>2 DEF NewImage
    <3> QED BY <2>2, <3>1, <3>2
  <2> QED BY <2>1, <2>2 DEF ImagesOK, Old
<1>5. ImageStored'
  <2>1. ASSUME NEW p \in db'["products"], p.image # 0 PROVE p.image \in files' \cup lost'
    <3>1. p.image \in files \cup lost
      BY <2>1 DEF ImageInv, ImageStored
    <3> QED BY <2>1, <3>1 DEF MayGo
  <2> QED BY <2>1 DEF ImageStored
<1> QED BY <1>3, <1>4, <1>5 DEF ImageInv

\* A transaction that has to do with no image.
LEMMA ImageDull ==
  ASSUME Basic, ImageInv, NEW w \in Workers, Only(w), Older(w), UNCHANGED <<db, files, lost>>,
         tx'[w].image = 0, tx'[w].old = 0, tx'[w].pc \notin {"publish", "cleanup", "undo"},
         \A p \in tx'[w].ins["products"] : p.image = 0
  PROVE  ImageInv'
<1>1. ImageOK(w)'
  BY DEF ImageOK
<1>2. \A p \in AllProducts' : p.image # 0 => p \in AllProducts
  BY AllRows, AllRowsNext DEF Only
<1> QED BY <1>1, <1>2, ImageStep

LEMMA NoImage ==
  ASSUME ImageInv, NEW w \in Workers, tx[w].pc \notin {"store", "image", "publish", "idle", "cleanup", "undo"}
  PROVE  tx[w].image = 0 /\ tx[w].old = 0 /\ \A p \in tx[w].ins["products"] : p.image = 0
BY DEF ImageInv, ImageOK, Setting

LEMMA ImageBare ==
  ASSUME Basic, ImageInv, NEW w \in Workers, Only(w), Older(w), UNCHANGED <<db, files, lost>>,
         Bare(tx'[w]), tx'[w].image = 0, tx'[w].old = 0, tx'[w].pc \notin {"publish", "cleanup", "undo"}
  PROVE  ImageInv'
<1>1. tx'[w].ins["products"] = {}
  BY NoneEmpty, TableFacts DEF Bare
<1> QED BY <1>1, ImageDull

LEMMA RolledImage ==
  ASSUME Basic, ImageInv, NEW w \in Workers, Rolled(w), UNCHANGED <<files, lost>>
  PROVE  ImageInv'
<1>1. Only(w) /\ tx'[w] = Idle /\ db' = db /\ Older(w)
  BY RolledBasic, IdleShape DEF Rolled, Older
<1>2. Bare(Idle) /\ Idle.image = 0 /\ Idle.old = 0 /\ Idle.pc = "idle"
  BY IdleOK, IdleShape DEF Bare, Idle
<1> QED BY <1>1, <1>2, ImageBare

\* The statements that leave images alone.
LEMMA SameImages ==
  ASSUME Basic, ImageInv, NEW w \in Workers, Only(w), UNCHANGED <<db, files, lost, requests>>,
         Like(tx[w], tx'[w]), tx[w].pc \notin {"store", "image", "publish", "idle", "cleanup", "undo"},
         tx'[w].pc \notin {"publish", "cleanup", "undo"},
         \A p \in tx'[w].ins["products"] : p.image = 0 \/ p \in tx[w].ins["products"]
  PROVE  ImageInv'
BY NoImage, ImageDull DEF Like, Older

LEMMA InsertImage ==
  ASSUME Basic, ImageInv, NEW w \in Workers, NEW sku, InsertProduct(w, sku)
  PROVE  ImageInv'
<1> DEFINE new == Product(sku, tx[w].request, tx[w].request, tx[w].run, 0)
<1>1. tx[w].pc = "create" /\ UNCHANGED <<files, lost>>
  BY InsertEffect
<1>2. CASE Rolled(w)
  BY <1>1, <1>2, RolledImage
<1>3. CASE /\ Moved(w) /\ Handles(tx[w], tx'[w], "products", {}, {new})
           /\ tx'[w].pc \in {"create", "commit", "mark"}
  <2>1. new.image = 0
    BY DEF Product
  <2> HIDE DEF new
  <2>2. tx'[w].ins["products"] = (tx[w].ins["products"] \ {}) \cup {new}
    <3>1. "products" \in TableNames /\ Handles(tx[w], tx'[w], "products", {}, {new})
      BY <1>3, TableFacts
    <3> QED BY <3>1 DEF Handles
  <2> QED BY <1>1, <1>3, <2>1, <2>2, SameImages DEF Moved
<1> QED BY <1>2, <1>3, InsertEffect

LEMMA MarkImage ==
  ASSUME Basic, ImageInv, NEW w \in Workers, MarkCommitted(w)
  PROVE  ImageInv'
<1>1. tx[w].pc = "mark" /\ UNCHANGED <<files, lost>>
  BY MarkEffect
<1>2. CASE Rolled(w)
  BY <1>1, <1>2, RolledImage
<1>3. CASE /\ Moved(w) /\ tx'[w].pc = "commit"
           /\ \E z : /\ Handles(tx[w], z, "runs", Found(w), Marked(w))
                     /\ Handles(z, tx'[w], "records", {}, Answer(w))
  <2>1. tx'[w].ins["products"] = tx[w].ins["products"]
    BY <1>3, TableFacts DEF Handles
  <2> QED BY <1>1, <1>3, <2>1, SameImages DEF Moved
<1> QED BY <1>2, <1>3, MarkEffect

LEMMA EnsureImage ==
  ASSUME Basic, ImageInv, NEW w \in Workers, EnsureBalance(w)
  PROVE  ImageInv'
<1>1. tx[w].pc = "ensure" /\ UNCHANGED <<files, lost>>
  BY EnsureEffect
<1>2. CASE Rolled(w)
  BY <1>1, <1>2, RolledImage
<1>3. CASE /\ Moved(w) /\ tx'[w].pc = "lock"
           /\ SameHand(tx[w], tx'[w]) \/ \E S : Handles(tx[w], tx'[w], "balances", {}, S)
  <2>1. tx'[w].ins["products"] = tx[w].ins["products"]
    BY <1>3, TableFacts DEF Handles, SameHand
  <2> QED BY <1>1, <1>3, <2>1, SameImages DEF Moved
<1> QED BY <1>2, <1>3, EnsureEffect

LEMMA LockImage ==
  ASSUME Basic, ImageInv, NEW w \in Workers, LockBalance(w)
  PROVE  ImageInv'
<1>1. tx[w].pc = "lock" /\ UNCHANGED <<files, lost>>
  BY LockEffect
<1>2. CASE Rolled(w)
  BY <1>1, <1>2, RolledImage
<1>3. CASE /\ Moved(w) /\ tx'[w].pc = "write" /\ Handles(tx[w], tx'[w], "balances", Found(w), Found(w))
  <2>1. tx'[w].ins["products"] = tx[w].ins["products"]
    BY <1>3, TableFacts DEF Handles
  <2> QED BY <1>1, <1>3, <2>1, SameImages DEF Moved
<1> QED BY <1>2, <1>3, LockEffect

LEMMA WriteStockImage ==
  ASSUME Basic, ImageInv, NEW w \in Workers, WriteStock(w)
  PROVE  ImageInv'
<1>1. tx[w].pc = "write" /\ UNCHANGED <<files, lost>>
  BY StockEffect
<1>2. CASE Rolled(w)
  BY <1>1, <1>2, RolledImage
<1>3. CASE /\ Moved(w) /\ tx'[w].pc = "commit"
           /\ \E R, S, z, q :
                /\ Handles(tx[w], z, "balances", R, S)
                /\ Handles(z, q, "movements", {}, Movement(w))
                /\ Handles(q, tx'[w], "records", {}, Answer(w))
  <2>1. tx'[w].ins["products"] = tx[w].ins["products"]
    BY <1>3, TableFacts DEF Handles
  <2> QED BY <1>1, <1>3, <2>1, SameImages DEF Moved
<1> QED BY <1>2, <1>3, StockEffect

LEMMA RecheckImage ==
  ASSUME Basic, ImageInv, NEW w \in Workers, Recheck(w)
  PROVE  ImageInv'
<1>1. tx[w].pc = "recheck" /\ UNCHANGED <<files, lost>>
  BY RecheckEffect
<1>2. CASE Rolled(w)
  BY <1>1, <1>2, RolledImage
<1>3. CASE /\ Only(w) /\ UNCHANGED <<db, requests>> /\ Like(tx[w], tx'[w])
           /\ SameHand(tx[w], tx'[w]) /\ tx'[w].pc = "delete"
  BY <1>1, <1>3, SameImages DEF SameHand
<1> QED BY <1>2, <1>3, RecheckEffect

LEMMA DeleteRowsImage ==
  ASSUME Basic, ImageInv, NEW w \in Workers, DeleteTable(w)
  PROVE  ImageInv'
<1>1. tx[w].pc = "delete" /\ UNCHANGED <<files, lost>>
  BY DeleteEffect
<1>2. CASE Rolled(w)
  BY <1>1, <1>2, RolledImage
<1>3. CASE /\ Only(w) /\ UNCHANGED <<db, requests>> /\ Like(tx[w], tx'[w])
           /\ tx'[w].pc = (IF tx[w].step = 5 THEN "seed" ELSE "delete")
           /\ Removes(w, Table(w), Found(w))
  <2>1. \A p \in tx'[w].ins["products"] : p \in tx[w].ins["products"]
    BY <1>3, TableFacts DEF Removes, Handles
  <2>2. tx'[w].pc \in {"seed", "delete"}
    BY <1>3
  <2> QED BY <1>1, <1>3, <2>1, <2>2, SameImages
<1> QED BY <1>2, <1>3, DeleteEffect

LEMMA SeedImage ==
  ASSUME Basic, ImageInv, NEW w \in Workers, Seed(w)
  PROVE  ImageInv'
<1>1. tx[w].pc = "seed" /\ UNCHANGED <<files, lost>>
  BY SeedEffect
<1>2. CASE Rolled(w)
  BY <1>1, <1>2, RolledImage
<1>3. CASE /\ Only(w) /\ UNCHANGED <<db, requests>> /\ Like(tx[w], tx'[w]) /\ tx'[w].pc = "commit"
           /\ \A t \in TableNames \ {"records"} : tx'[w].ins[t] = Fixture(tx[w].request)[t]
  <2> DEFINE f == Product(FixtureSku, 0, tx[w].request, NoRun, 0)
  <2>1. tx[w].request \in Nat
    BY ImagesTyped
  <2>2. Fixture(tx[w].request)["products"] = {f}
    BY <2>1, FixtureFacts
  <2>3. "products" \in TableNames \ {"records"}
    BY TableFacts
  <2>4. f.image = 0
    BY DEF Product
  <2> HIDE DEF f
  <2>5. \A p \in tx'[w].ins["products"] : p.image = 0
    BY <1>3, <2>2, <2>3, <2>4
  <2> QED BY <1>1, <1>3, <2>5, SameImages
<1> QED BY <1>2, <1>3, SeedEffect

LEMMA PreviewImage ==
  ASSUME Basic, ImageInv, NEW w \in Workers, RequestPreview(w)
  PROVE  ImageInv'
<1>1. /\ Only(w) /\ UNCHANGED <<db, files, lost>> /\ requests' = requests + 1
      /\ tx'[w].pc = "commit" /\ tx'[w].image = 0 /\ tx'[w].old = 0 /\ tx'[w].request = requests + 1
  BY PreviewEffect
<1>2. tx'[w].ins["products"] = {}
  BY PreviewEffect, TableFacts
<1> QED BY <1>1, <1>2, ImageDull DEF Older

\* The same file is old, and no other row's.
LEMMA WaitImage ==
  ASSUME Basic, ImageInv, NEW w \in Workers, Wait(w)
  PROVE  ImageInv'
<1>1. /\ Only(w) /\ UNCHANGED <<db, requests, files, lost>>
      /\ Like(tx[w], tx'[w]) /\ SameHand(tx[w], tx'[w]) /\ tx'[w].pc = tx[w].pc
  BY WaitEffect
<1>2. AllProducts' = AllProducts
  <2>1. \A p : p \in AllProducts' <=> p \in AllProducts
    BY <1>1, AllRows, AllRowsNext DEF Only, SameHand
  <2> QED BY <2>1
<1>3. \A n : Old(n) => n <= requests' /\ \A u \in Workers : tx'[u].request # 0 => tx'[u].request # n
  BY <1>1 DEF Old, Only, Like
<1>4. ImageOK(w)
  BY DEF ImageInv
<1>5. ImageOK(w)'
  BY <1>1, <1>2, <1>3, <1>4 DEF ImageOK, Setting, Old, Like, SameHand
<1> QED BY <1>1, <1>2, <1>5, ImageStep DEF Older, Like

\* A request about an image reads the row's.
LEMMA ReadImage ==
  ASSUME Basic, ImageInv, NEW w \in Workers, NEW p \in db["products"], Began(w), UNCHANGED <<files, lost>>,
         tx'[w].pc \in {"store", "image"}, tx'[w].product = ProductId(p), tx'[w].old = p.image, tx'[w].image = 0
  PROVE  ImageInv'
<1>1. tx'[w].ins["products"] = {} /\ Only(w) /\ db' = db /\ Older(w)
  BY NoneEmpty, TableFacts DEF Began, Bare, Older
<1>2. \A q \in AllProducts' : q \in AllProducts
  BY <1>1, AllRows, AllRowsNext DEF Only
<1>3. \A n \in Int : Old(n) => n <= requests' /\ \A u \in Workers : tx'[u].request # 0 => tx'[u].request # n
  BY <1>1, ImagesTyped, OldStays DEF Older, Old
<1>4. p.image # 0 => p.image <= requests' /\ \A u \in Workers : tx'[u].request # 0 => tx'[u].request # p.image
  BY <1>3, ImagesTyped DEF ImageInv, ImagesOK
<1>5. p.image # 0 => \A q \in AllProducts' : q.image = p.image => ProductId(q) = ProductId(p)
  BY <1>2, AllRows DEF ImageInv, ImagesOK
<1>6. ImageOK(w)'
  BY <1>1, <1>4, <1>5 DEF ImageOK, Setting, Old
<1> QED BY <1>1, <1>2, <1>6, ImageStep

LEMMA StoreImage ==
  ASSUME Basic, ImageInv, NEW w \in Workers, StoreFile(w)
  PROVE  ImageInv'
<1>1. /\ tx[w].pc = "store" /\ files' = files \cup {tx[w].request} /\ UNCHANGED <<lost, db, requests>>
      /\ Only(w) /\ SameHand(tx[w], tx'[w])
      /\ tx'[w].pc = "image" /\ tx'[w].image = tx[w].request
      /\ tx'[w].request = tx[w].request /\ tx'[w].product = tx[w].product
      /\ tx'[w].old = tx[w].old
  BY StoreEffect
<1>2. \A q \in AllProducts' : q \in AllProducts
  BY <1>1, AllRows, AllRowsNext DEF Only, SameHand
<1>3. \A n : Old(n) => n <= requests' /\ \A u \in Workers : tx'[u].request # 0 => tx'[u].request # n
  BY <1>1 DEF Old, Only
<1>4. ImageOK(w)
  BY DEF ImageInv
<1>5. tx[w].ins["products"] = {}
  <2>1. ~Resets(w)
    BY <1>1, ResetFacts DEF Resets, ResetShape
  <2>2. PlainShape(tx[w])
    BY <2>1, PlainFacts
  <2> QED BY <1>1, <2>2, TableFacts DEF PlainShape, Untouched
<1>6. ImageOK(w)'
  BY <1>1, <1>2, <1>3, <1>4, <1>5 DEF ImageOK, Setting, Old, SameHand
<1> QED BY <1>1, <1>2, <1>6, ImageStep DEF Older

\* What an upload that did not come about leaves: a file no row refers to.
LEMMA UndoneImage ==
  ASSUME Basic, ImageInv, NEW w \in Workers, tx[w].pc \in {"image", "publish"}, Ended(w),
         tx'[w] = Undone(tx[w]), files' = files, lost \subseteq lost',
         \A p \in db'["products"] : p.image # 0 /\ p \notin db["products"] =>
           p.image = tx[w].request /\ p.image \in files /\ p.image \in lost',
         \A p \in AllProducts' : p.image # 0 => p \in AllProducts
  PROVE  ImageInv'
<1> DEFINE x == tx[w]
           y == tx'[w]
<1>1. Good(x) /\ ImageOK(w)
  BY TxGood DEF ImageInv
<1>2. /\ y.pc = (IF x.image = 0 THEN "idle" ELSE "undo") /\ y.image = x.image
      /\ y.old \in {0, x.old} /\ y.request = 0
  BY <1>1, UndoneOK
<1>3. x.image # 0 => x.image = x.request
  BY <1>1 DEF ImageOK, Setting
<1>4. x.image # 0 => x.image <= requests' /\ \A u \in Workers : tx'[u].request # 0 => tx'[u].request # x.image
  BY <1>2, <1>3 DEF Basic, Isolation, Births, Ended, Only
<1>5. x.old # 0 => x.old <= requests' /\ \A u \in Workers : tx'[u].request # 0 => tx'[u].request # x.old
  <2>1. \A n : Old(n) => n <= requests' /\ \A u \in Workers : tx'[u].request # 0 => tx'[u].request # n
    BY <1>2 DEF Old, Ended, Only
  <2> QED BY <1>1, <2>1 DEF ImageOK
<1>6. x.image # 0 => \A p \in db'["products"] : p.image = x.image => p.image \in lost'
  BY <1>3 DEF ImageInv, ImagesOK, Old
<1>7. y.ins["products"] = {} /\ y.run = NoRun
  BY NoneEmpty, TableFacts DEF Ended, Bare
<1>8. y.pc \in {"idle", "undo"} /\ (y.pc = "undo" => x.image # 0)
  BY <1>2
<1>9. y.old # 0 => y.old = x.old
  BY <1>2
<1>10. ImageOK(w)'
  BY <1>2, <1>4, <1>5, <1>6, <1>7, <1>8, <1>9 DEF ImageOK, Setting, Old
<1>11. \A p \in db'["products"] : p.image # 0 /\ p \notin db["products"] =>
           p.image = tx[w].request /\ tx'[w].request = 0 /\ p.image \in files
  BY <1>2
<1>12. Only(w) /\ Older(w)
  BY <1>2 DEF Ended, Older
<1> QED BY <1>10, <1>11, <1>12, ImageStep

LEMMA SetImageOK ==
  ASSUME Basic, ImageInv, NEW w \in Workers, SetImage(w)
  PROVE  ImageInv'
<1> DEFINE x == tx[w]
           y == tx'[w]
<1>1. x.pc = "image" /\ UNCHANGED <<files, lost, db>>
  BY ImageEffect
<1>2. PlainShape(x) /\ ImageOK(w) /\ Good(x)
  <2>1. ~Resets(w)
    BY <1>1, ResetFacts DEF Resets, ResetShape
  <2> QED BY <2>1, PlainFacts, TxGood DEF ImageInv
<1>3. x.ins["products"] = {} /\ x.request # 0
  BY <1>1, <1>2, TableFacts DEF PlainShape, Untouched
<1>4. x.image # 0 => x.image = x.request /\ x.image \in files
  BY <1>1, <1>2 DEF ImageOK, Setting
<1>5. CASE Ended(w) /\ y = Undone(x)
  <2>1. \A p \in AllProducts' : p \in AllProducts
    <3>1. y.ins["products"] = {} /\ Only(w)
      BY <1>5, NoneEmpty, TableFacts DEF Ended, Bare
    <3> QED BY <1>1, <3>1, AllRows, AllRowsNext DEF Only
  <2> QED BY <1>1, <1>5, <2>1, UndoneImage
<1>6. CASE /\ Moved(w) /\ y.pc = "publish"
           /\ Handles(x, y, "products", Found(w), Imaged(w))
           /\ Found(w) # {}
           /\ \A p \in Found(w) : p \in db["products"] /\ ProductId(p) = x.product /\ p \in ProductRow
  <2>1. y.ins["products"] = Imaged(w)
    <3>1. "products" \in TableNames /\ Handles(tx[w], tx'[w], "products", Found(w), Imaged(w))
      BY <1>6, TableFacts
    <3>2. tx'[w].ins["products"] = (tx[w].ins["products"] \ Found(w)) \cup Imaged(w)
      BY <3>1 DEF Handles
    <3> QED BY <1>3, <3>2
  <2>2. \A q \in Imaged(w) : q.image = x.image /\ ProductId(q) = x.product
    BY <1>6 DEF Imaged, ProductRow, ProductId
  <2>3. \E q \in Imaged(w) : TRUE
    BY <1>6 DEF Imaged
  <2>4. Only(w) /\ Older(w) /\ Like(x, y) /\ requests' = requests
    BY <1>6 DEF Moved, Older, Like
  <2>5. \A q \in AllProducts' : q \in AllProducts \/ q \in Imaged(w)
    BY <1>1, <2>1, <2>4, AllRows, AllRowsNext DEF Only
  <2>6. \A q \in AllProducts' : q.image # 0 => q \in AllProducts \/ NewImage(w, q)
    BY <1>1, <1>3, <1>4, <2>2, <2>5 DEF NewImage
  <2>7. \A n : Old(n) => n <= requests' /\ \A u \in Workers : tx'[u].request # 0 => tx'[u].request # n
    BY <2>4 DEF Old, Only, Like
  <2>8. ASSUME x.old # 0, NEW q \in AllProducts', q.image = x.old PROVE ProductId(q) = x.product
    <3>1. CASE q \in AllProducts
      BY <1>1, <1>2, <2>8, <3>1 DEF ImageOK, Setting
    <3>2. CASE q \in Imaged(w)
      BY <2>2, <3>2
    <3> QED BY <2>5, <3>1, <3>2
  <2>9. ImageOK(w)'
    BY <1>1, <1>2, <1>4, <1>6, <2>1, <2>2, <2>3, <2>4, <2>7, <2>8 DEF ImageOK, Setting, Old, Like
  <2> QED BY <1>1, <2>4, <2>6, <2>9, ImageStep
<1> QED BY <1>5, <1>6, ImageEffect

\* What a commit makes of the rows: none with an image that was in no row.
LEMMA CommitRows ==
  ASSUME Basic, ImageInv, NEW w \in Workers, Ended(w), Lands(w), tx[w].pc \in {"commit", "publish"}
  PROVE  /\ \A p \in AllProducts' : p \in AllProducts
         /\ \A p \in db'["products"] : p.image # 0 /\ p \notin db["products"] =>
              /\ tx[w].pc = "publish" /\ p.image = tx[w].image
              /\ p.image = tx[w].request /\ tx'[w].request = 0 /\ p.image \in files
<1>1. "products" \in TableNames /\ tx'[w].ins["products"] = {}
  BY NoneEmpty, TableFacts DEF Ended, Bare
<1>2. \A p \in db'["products"] : p \in db["products"] \/ p \in tx[w].ins["products"]
  BY <1>1 DEF Lands, Visible
<1>3. \A p \in AllProducts' : p \in AllProducts
  BY <1>1, <1>2, AllRows, AllRowsNext DEF Ended, Only
<1>4. ASSUME NEW p \in tx[w].ins["products"], p.image # 0
      PROVE  /\ tx[w].pc = "publish" /\ p.image = tx[w].image
             /\ p.image = tx[w].request /\ p.image \in files
  <2>1. ImageOK(w)
    BY DEF ImageInv
  <2>2. tx[w].pc = "publish"
    BY <1>4, NoImage
  <2> QED BY <1>4, <2>1, <2>2 DEF ImageOK, Setting
<1> QED BY <1>2, <1>3, <1>4 DEF Ended

LEMMA CommitImages ==
  ASSUME Basic, ImageInv, NEW w \in Workers, Commit(w)
  PROVE  ImageInv'
<1>1. tx[w].pc = "commit" /\ Ended(w) /\ tx'[w] = Idle /\ Lands(w) /\ UNCHANGED <<files, lost>>
  BY CommitEffect DEF Lands
<1>2. Idle.image = 0 /\ Idle.old = 0 /\ Idle.pc = "idle" /\ Idle.ins["products"] = {}
  BY IdleShape, IdleOK, NoneEmpty, TableFacts
<1>3. ImageOK(w)'
  BY <1>1, <1>2 DEF ImageOK, Setting
<1>4. Only(w) /\ Older(w)
  BY <1>1 DEF Ended, Older
<1> QED BY <1>1, <1>3, <1>4, CommitRows, ImageStep

\* Once the row is there the file it had before is nobody's.
LEMMA PublishedImage ==
  ASSUME Basic, ImageInv, NEW w \in Workers, tx[w].pc = "publish", Ended(w), Lands(w),
         tx'[w] = Afterwards(tx[w]), UNCHANGED <<files, lost>>
  PROVE  ImageInv'
<1> DEFINE x == tx[w]
           y == tx'[w]
<1>1. Good(x) /\ ImageOK(w) /\ "products" \in TableNames
  BY TxGood, TableFacts DEF ImageInv
<1>2. y.pc = (IF x.old = 0 THEN "idle" ELSE "cleanup") /\ y.old = x.old /\ y.request = 0
  BY <1>1, AfterwardsOK
<1>3. y.ins["products"] = {} /\ Only(w) /\ Older(w) /\ requests' = requests
  BY <1>1, NoneEmpty DEF Ended, Bare, Older
<1>4. \A p \in AllProducts' : p \in AllProducts
  BY CommitRows
<1>5. ASSUME x.old # 0, NEW p \in AllProducts', p.image = x.old PROVE FALSE
  <2>1. ProductId(p) = x.product
    BY <1>1, <1>4, <1>5 DEF ImageOK, Setting
  <2>2. PICK q \in x.ins["products"] : ProductId(q) = x.product
    BY <1>1 DEF ImageOK
  <2>3. p.key = q.key
    BY <2>1, <2>2 DEF ProductId
  <2>4. q.image # x.old
    BY <1>1, <1>5, <2>2 DEF ImageOK, Setting, Old
  <2>5. CASE p \in db'["products"]
    <3>1. p \in Visible(w, "products") /\ q \in Visible(w, "products")
      BY <1>1, <2>2, <2>5 DEF Lands, Visible
    <3>2. p = q
      BY <1>1, <2>3, <3>1 DEF Basic, Isolation, TableIsolated, Unique
    <3> QED BY <1>5, <2>4, <3>2
  <2>6. CASE \E v \in Workers : p \in y.ins["products"] \/ (v # w /\ p \in tx[v].ins["products"])
    <3>1. PICK v \in Workers \ {w} : p \in tx[v].ins["products"]
      BY <1>3, <2>6
    <3> QED BY <1>1, <2>2, <2>3, <3>1, OwnKey DEF Owned
  <2> QED BY <1>3, <1>5, <2>5, <2>6, AllRowsNext DEF Only
<1>6. x.old # 0 => x.old <= requests' /\ \A u \in Workers : tx'[u].request # 0 => tx'[u].request # x.old
  BY <1>1, <1>2, <1>3 DEF ImageOK, Old, Only
<1>7. y.pc \in {"idle", "cleanup"} /\ (y.pc = "cleanup" => x.old # 0)
  BY <1>2
<1>8. ImageOK(w)'
  BY <1>2, <1>3, <1>5, <1>6, <1>7 DEF ImageOK, Setting, Old
<1> QED BY <1>3, <1>8, CommitRows, ImageStep

LEMMA CommitImageOK ==
  ASSUME Basic, ImageInv, NEW w \in Workers, CommitImage(w)
  PROVE  ImageInv'
<1>1. tx[w].pc = "publish" /\ UNCHANGED files /\ Ended(w)
  BY CommitImageEffect
<1>2. CASE Lands(w) /\ tx'[w] = Afterwards(tx[w]) /\ UNCHANGED lost
  BY <1>1, <1>2, PublishedImage
<1>3. CASE UNCHANGED <<db, lost>> /\ tx'[w] = Undone(tx[w])
  <2>1. tx'[w].ins["products"] = {} /\ Only(w)
    BY <1>1, NoneEmpty, TableFacts DEF Ended, Bare
  <2>2. \A p \in AllProducts' : p \in AllProducts
    BY <1>3, <2>1, AllRows, AllRowsNext DEF Only
  <2> QED BY <1>1, <1>3, <2>2, UndoneImage
<1>4. CASE Lands(w) /\ tx'[w] = Undone(tx[w]) /\ lost' = lost \cup {tx[w].image}
  <2>1. \A p \in db'["products"] : p.image # 0 /\ p \notin db["products"] =>
          p.image = tx[w].request /\ p.image \in files /\ p.image \in lost'
    BY <1>1, <1>4, CommitRows
  <2> QED BY <1>1, <1>4, <2>1, CommitRows, UndoneImage
<1> QED BY <1>2, <1>3, <1>4, CommitImageEffect DEF Lands

\* What is destroyed is no row's, or that of a lost answer.
LEMMA DestroyImage ==
  ASSUME Basic, ImageInv, NEW w \in Workers, DestroyFile(w)
  PROVE  ImageInv'
<1>1. /\ tx[w].pc \in {"cleanup", "undo"} /\ Rolled(w) /\ UNCHANGED lost
      /\ files' = files \ {Unwanted(tx[w])}
  BY DestroyEffect
<1>2. Only(w) /\ tx'[w] = Idle /\ db' = db /\ Older(w)
  BY <1>1, RolledBasic, IdleShape DEF Rolled, Older
<1>3. Idle.image = 0 /\ Idle.old = 0 /\ Idle.pc = "idle" /\ Idle.ins["products"] = {}
  BY IdleShape, IdleOK, NoneEmpty, TableFacts
<1>4. ImageOK(w) /\ \A p \in db["products"] : p \in AllProducts
  BY AllRows DEF ImageInv
<1>5. MayGo(Unwanted(tx[w]))
  <2>1. CASE tx[w].pc = "cleanup"
    BY <1>2, <1>4, <2>1 DEF MayGo, Unwanted, ImageOK
  <2>2. CASE tx[w].pc = "undo"
    BY <1>1, <1>2, <1>4, <2>2 DEF MayGo, Unwanted, ImageOK
  <2> QED BY <1>1, <2>1, <2>2
<1>6. \A p \in AllProducts' : p \in AllProducts
  BY <1>2, <1>3, AllRows, AllRowsNext DEF Only
<1>7. ImageOK(w)'
  BY <1>2, <1>3 DEF ImageOK, Setting
<1> QED BY <1>1, <1>2, <1>5, <1>6, <1>7, ImageStep

-----------------------------------------------------------------------------
(* The invariant.                                                           *)

CatalogInv == Basic /\ FixtureWhole /\ StockInv /\ ImportInv /\ ImageInv

\* A request other than a preview begins with empty hands.
LEMMA BeganPlain ==
  ASSUME CatalogInv, Basic', NEW w \in Workers, Began(w),
         UNCHANGED <<files, lost>>, tx'[w].run = NoRun, tx'[w].pc \in {"create", "ensure", "delete", "recheck"},
         tx'[w].image = 0, tx'[w].old = 0
  PROVE  CatalogInv'
<1>1. Only(w) /\ db' = db /\ Bare(tx'[w]) /\ Older(w)
  BY DEF Began, Older
<1>2. ImportInv' /\ ImageInv' /\ StockInv'
  BY <1>1, ImportBare, ImageBare, BareStock DEF CatalogInv
<1> QED BY <1>1, <1>2 DEF CatalogInv, FixtureWhole

LEMMA BeganImage ==
  ASSUME CatalogInv, Basic', NEW w \in Workers, NEW p \in db["products"], Began(w), UNCHANGED <<files, lost>>,
         tx'[w].run = NoRun, tx'[w].pc \in {"store", "image"},
         tx'[w].product = ProductId(p), tx'[w].old = p.image, tx'[w].image = 0
  PROVE  CatalogInv'
<1>1. Only(w) /\ db' = db /\ Bare(tx'[w]) /\ Older(w)
  BY DEF Began, Older
<1>2. ImportInv' /\ ImageInv' /\ StockInv'
  BY <1>1, ImportBare, ReadImage, BareStock DEF CatalogInv
<1> QED BY <1>1, <1>2 DEF CatalogInv, FixtureWhole

LEMMA BeganImport ==
  ASSUME CatalogInv, NEW w \in Workers, NEW run \in db.runs, RequestImport(w, run)
  PROVE  CatalogInv'
<1>1. /\ Basic' /\ Began(w) /\ tx'[w].pc \in {"create", "mark"} /\ tx'[w].old = 0 /\ tx'[w].image = 0
  BY ImportBegins DEF CatalogInv
<1>2. Only(w) /\ db' = db /\ Bare(tx'[w]) /\ Older(w) /\ UNCHANGED <<files, lost>>
  BY <1>1 DEF Began, Older, RequestImport
<1>3. ImportInv' /\ ImageInv' /\ StockInv'
  BY <1>1, <1>2, ImportBegun, ImageBare, BareStock DEF CatalogInv
<1> QED BY <1>1, <1>2, <1>3 DEF CatalogInv, FixtureWhole

LEMMA RequestOK ==
  ASSUME CatalogInv, NEW w \in Workers, Request(w)
  PROVE  CatalogInv'
<1>1. ASSUME NEW sku \in CsvSkus \cup {PreviewSku, FixtureSku}, RequestCreate(w, sku) PROVE CatalogInv'
  <2>1. sku \in Skus
    BY DEF Skus
  <2>2. UNCHANGED <<files, lost>>
    BY <1>1 DEF RequestCreate
  <2> QED BY <1>1, <2>1, <2>2, CreateBegins, BeganPlain DEF CatalogInv
<1>2. ASSUME NEW run \in db.runs, RequestImport(w, run) PROVE CatalogInv'
  BY <1>2, BeganImport
<1>3. ASSUME NEW p \in db.products, RequestAdjust(w, p) PROVE CatalogInv'
  <2>1. UNCHANGED <<files, lost>>
    BY <1>3 DEF RequestAdjust
  <2> QED BY <1>3, <2>1, AdjustBegins, BeganPlain DEF CatalogInv
<1>4. ASSUME NEW p \in db.products, RequestUpload(w, p) PROVE CatalogInv'
  <2>1. UNCHANGED <<files, lost>>
    BY <1>4 DEF RequestUpload
  <2> QED BY <1>4, <2>1, UploadBegins, BeganImage DEF CatalogInv
<1>5. ASSUME NEW p \in db.products, RequestDeleteImage(w, p) PROVE CatalogInv'
  <2>1. UNCHANGED <<files, lost>>
    BY <1>5 DEF RequestDeleteImage
  <2> QED BY <1>5, <2>1, DeleteImageBegins, BeganImage DEF CatalogInv
<1>6. CASE RequestPreview(w)
  <2>1. Basic' /\ db' = db
    BY <1>6, PreviewEffect DEF CatalogInv
  <2>2. StockInv' /\ ImportInv' /\ ImageInv'
    BY <1>6, PreviewStock, PreviewImport, PreviewImage DEF CatalogInv
  <2> QED BY <2>1, <2>2 DEF CatalogInv, FixtureWhole
<1>7. CASE RequestReset(w)
  <2>1. UNCHANGED <<files, lost>>
    BY <1>7 DEF RequestReset
  <2> QED BY <1>7, <2>1, ResetBegins, BeganPlain DEF CatalogInv
<1>8. CASE RequestAutomatic(w)
  <2>1. UNCHANGED <<files, lost>>
    BY <1>8 DEF RequestAutomatic
  <2> QED BY <1>8, <2>1, AutomaticBegins, BeganPlain DEF CatalogInv
<1> QED BY <1>1, <1>2, <1>3, <1>4, <1>5, <1>6, <1>7, <1>8 DEF Request

\* A statement that leaves the committed rows as they are.
LEMMA QuietOK ==
  ASSUME CatalogInv, Basic', db' = db, StockInv', ImportInv', ImageInv'
  PROVE  CatalogInv'
BY DEF CatalogInv, FixtureWhole

LEMMA RolledOK ==
  ASSUME CatalogInv, NEW w \in Workers, Rolled(w), UNCHANGED <<files, lost>>
  PROVE  CatalogInv'
<1>1. Basic' /\ db' = db
  BY RolledBasic DEF CatalogInv, Rolled
<1> QED BY <1>1, RolledStock, RolledImport, RolledImage, QuietOK DEF CatalogInv

LEMMA StepOK ==
  ASSUME CatalogInv, NEW w \in Workers, Step(w)
  PROVE  CatalogInv'
<1> Basic /\ StockInv /\ ImportInv /\ ImageInv /\ FixtureWhole
  BY DEF CatalogInv
<1>1. CASE Wait(w)
  <2>1. Basic' /\ db' = db
    BY <1>1, WaitEffect
  <2> QED BY <1>1, <2>1, WaitStock, WaitImport, WaitImage, QuietOK
<1>2. CASE Commit(w)
  <2>1. tx[w].pc = "commit" /\ Basic' /\ \A t \in TableNames : db'[t] = Visible(w, t)
    BY <1>2, CommitEffect
  <2>2. FixtureWhole'
    BY <2>1, FixtureCommit
  <2> QED BY <1>2, <2>1, <2>2, CommitStock, CommitImport, CommitImages DEF CatalogInv
<1>3. CASE Crash(w)
  BY <1>3, CrashEffect, RolledOK
<1>4. ASSUME NEW sku, InsertProduct(w, sku) PROVE CatalogInv'
  <2>1. Basic' /\ db' = db
    BY <1>4, InsertEffect, RolledBasic DEF Rolled, Moved
  <2> QED BY <1>4, <2>1, InsertStock, InsertImport, InsertImage, QuietOK
<1>5. CASE MarkCommitted(w)
  <2>1. Basic' /\ db' = db
    BY <1>5, MarkEffect, RolledBasic DEF Rolled, Moved
  <2> QED BY <1>5, <2>1, MarkStock, MarkImport, MarkImage, QuietOK
<1>6. CASE EnsureBalance(w)
  <2>1. Basic' /\ db' = db
    BY <1>6, EnsureEffect, RolledBasic DEF Rolled, Moved
  <2> QED BY <1>6, <2>1, EnsureStock, StockImport, EnsureImage, QuietOK
<1>7. CASE LockBalance(w)
  <2>1. Basic' /\ db' = db
    BY <1>7, LockEffect, RolledBasic DEF Rolled, Moved
  <2> QED BY <1>7, <2>1, LockStock, StockImport, LockImage, QuietOK
<1>8. CASE WriteStock(w)
  <2>1. Basic' /\ db' = db
    BY <1>8, StockEffect, RolledBasic DEF Rolled, Moved
  <2> QED BY <1>8, <2>1, WriteStockOK, WriteImport, WriteStockImage, QuietOK
<1>9. CASE Recheck(w)
  <2>1. Basic' /\ db' = db
    BY <1>9, RecheckEffect, RolledBasic DEF Rolled
  <2> QED BY <1>9, <2>1, RecheckStock, RecheckImport, RecheckImage, QuietOK
<1>10. CASE DeleteTable(w)
  <2>1. Basic' /\ db' = db
    BY <1>10, DeleteEffect, RolledBasic DEF Rolled
  <2> QED BY <1>10, <2>1, DeleteStock, DeleteImport, DeleteRowsImage, QuietOK
<1>11. CASE Seed(w)
  <2>1. Basic' /\ db' = db
    BY <1>11, SeedEffect, RolledBasic DEF Rolled
  <2> QED BY <1>11, <2>1, SeedStock, SeedImport, SeedImage, QuietOK
<1>12. CASE StoreFile(w)
  <2>1. Basic' /\ db' = db
    BY <1>12, StoreEffect
  <2> QED BY <1>12, <2>1, StoreStock, StockImport, StoreImage, QuietOK
<1>13. CASE SetImage(w)
  <2>1. Basic' /\ db' = db
    BY <1>13, ImageEffect DEF Moved
  <2> QED BY <1>13, <2>1, ImageStock, SetImageImport, SetImageOK, QuietOK
<1>14. CASE CommitImage(w)
  <2>1. tx[w].pc = "publish" /\ Basic' /\ (db' = db \/ \A t \in TableNames : db'[t] = Visible(w, t))
    BY <1>14, CommitImageEffect
  <2>2. FixtureWhole'
    BY <2>1, FixtureCommit DEF FixtureWhole
  <2> QED BY <1>14, <2>1, <2>2, CommitImageStock, CommitImageImport, CommitImageOK DEF CatalogInv
<1>15. CASE DestroyFile(w)
  <2>1. Rolled(w) /\ Basic' /\ db' = db
    BY <1>15, DestroyEffect, RolledBasic DEF Rolled
  <2> QED BY <1>15, <2>1, RolledStock, RolledImport, DestroyImage, QuietOK
<1> QED BY <1>1, <1>2, <1>3, <1>4, <1>5, <1>6, <1>7, <1>8, <1>9, <1>10, <1>11, <1>12, <1>13, <1>14, <1>15 DEF Step

LEMMA Unmoved ==
  ASSUME CatalogInv, UNCHANGED <<db, tx, files, lost, requests>>
  PROVE  CatalogInv'
<1>1. Basic'
  BY SMTT(30) DEF CatalogInv, Basic, TypeOK, Isolation, Births, Old, TableIsolated, Owned, Visible
<1>2. StockInv'
  BY SMTT(30) DEF CatalogInv, StockInv, LedgerStands, Exclusive, Resets, Stocked, ResetLedger, StockOK,
         Owned, LedgerOf, Visible, HasBalanceDeleted, Knows
<1>3. ImportInv'
  BY DEF CatalogInv, ImportInv, RunsOK, ImportedWhole, ImportOK, ImportsReset, Resets, Inserted, Old, Knows
<1>4. ImageInv'
  BY DEF CatalogInv, ImageInv, ImagesOK, ImageStored, ImageOK, AllProducts, Setting, Old
<1> QED BY <1>1, <1>2, <1>3, <1>4 DEF CatalogInv, FixtureWhole

LEMMA NextOK ==
  ASSUME CatalogInv, [Next]_vars
  PROVE  CatalogInv'
<1>1. CASE UNCHANGED vars
  BY <1>1, Unmoved DEF vars
<1>2. CASE BecomeDue
  BY <1>2, Unmoved DEF BecomeDue
<1>3. ASSUME NEW w \in Workers, Request(w) \/ Step(w) PROVE CatalogInv'
  BY <1>3, RequestOK, StepOK
<1> QED BY <1>1, <1>2, <1>3 DEF Next

LEMMA InitOK == Init => CatalogInv
<1> SUFFICES ASSUME Init PROVE CatalogInv
  OBVIOUS
<1>1. /\ db = Fixture(0) /\ requests = 0 /\ \A w \in Workers : tx[w] = Idle
      /\ tx = [w \in Workers |-> Idle]
  BY DEF Init
<1>2. /\ \A t \in TableNames : db[t] \subseteq RowOf[t] /\ Unique(db[t])
      /\ \A t \in TableNames : \A r \in db[t] : r.born = 0
      /\ \A t \in TableNames : t \in Numbered => \A r \in db[t] : r.key = 0
      /\ db["products"] = {Product(FixtureSku, 0, 0, NoRun, 0)}
      /\ db["balances"] = {[key |-> FixtureId, born |-> 0, onHand |-> 1]}
      /\ db["movements"] = {[key |-> 0, born |-> 0, product |-> FixtureId]}
      /\ db["runs"] = {Run(0, 0, "PREVIEW", {PreviewSku})}
  BY <1>1, FixtureFacts
<1>3. \A w \in Workers : \A t \in TableNames : tx[w].ins[t] = {} /\ tx[w].del[t] = {}
  BY <1>1, IdleOK, NoneEmpty
<1>4. Basic
  <2>1. TablesOK(db)
    <3>1. db \in [TableNames -> SUBSET Rows]
      <4>1. db = [t \in TableNames |-> db[t]]
        BY <1>1, CatalogAssumption DEF Fixture
      <4>2. \A t \in TableNames : db[t] \subseteq Rows
        BY <1>2 DEF Rows
      <4> QED BY <4>1, <4>2
    <3> QED BY <1>2, <3>1 DEF TablesOK
  <2>2. IsFiniteSet(db["movements"])
    <3> DEFINE m == [key |-> 0, born |-> 0, product |-> FixtureId]
    <3>1. IsFiniteSet({m})
      BY FS_Singleton
    <3> QED BY <1>2, <3>1
  <2>3. TypeOK
    BY <1>1, <2>1, <2>2, IdleOK, CatalogAssumption DEF TypeOK, Good
  <2>4. Births
    BY <1>1, <1>2, IdleShape DEF Births, Old
  <2>5. ASSUME NEW t \in TableNames PROVE TableIsolated(t)
    BY <1>2, <1>3 DEF TableIsolated, Visible, Owned, Unique
  <2> QED BY <1>1, <2>3, <2>4, <2>5, IdleShape DEF Basic, Isolation
<1>5. \A w \in Workers : ~Resets(w)
  BY <1>1, IdleShape DEF Resets
<1>6. FixtureWhole
  <2>1. \A t \in TableNames : \A f \in db[t] : {r.born : r \in {r \in db[t] : r.key = f.key}} = {0}
    BY <1>2
  <2>2. 0 \in 0 .. MaxRequests
    BY CatalogAssumption
  <2> QED BY <1>1, <2>1, <2>2 DEF FixtureWhole
<1>7. StockInv
  <2>1. Refers(db) /\ LedgerStands
    <3> DEFINE m == [key |-> 0, born |-> 0, product |-> FixtureId]
    <3>1. {n \in db["movements"] : n.product = FixtureId} = {m}
      BY <1>2
    <3>2. Cardinality({m}) = 1
      BY FS_Singleton
    <3>3. ASSUME NEW b \in db["balances"]
          PROVE  b.onHand = Cardinality({n \in db["movements"] : n.product = b.key})
      <4>1. b.key = FixtureId /\ b.onHand = 1
        BY <1>2
      <4> QED BY <3>1, <3>2, <4>1
    <3>4. Refers(db)
      BY <1>2 DEF Refers, Product, ProductId, FixtureId
    <3> QED BY <3>3, <3>4 DEF LedgerStands
  <2>2. \A w \in Workers : StockOK(w)
    BY <1>1, <1>3, TableFacts, IdleShape DEF StockOK, Owned
  <2> QED BY <1>5, <2>1, <2>2 DEF StockInv, Exclusive, Stocked
<1>8. ImportInv
  <2>1. RunsOK
    BY <1>2, <1>3, TableFacts DEF RunsOK, Run
  <2>2. ImportedWhole
    BY <1>2 DEF ImportedWhole, Product
  <2>3. \A w \in Workers : ImportOK(w)
    BY <1>1, <1>3, TableFacts, IdleShape DEF ImportOK, Old, NoRun
  <2> QED BY <1>5, <2>1, <2>2, <2>3 DEF ImportInv
<1>9. ImageInv
  <2>1. \A p \in AllProducts : p.image = 0
    BY <1>2, <1>3, TableFacts, AllRows DEF Product
  <2>2. ImagesOK
    BY <2>1, AllRows DEF ImagesOK
  <2>3. ImageStored
    BY <2>1, AllRows DEF ImageStored
  <2>4. \A w \in Workers : ImageOK(w)
    BY <1>1, <1>3, TableFacts, IdleShape DEF ImageOK, Setting
  <2> QED BY <2>2, <2>3, <2>4 DEF ImageInv
<1> QED BY <1>4, <1>6, <1>7, <1>8, <1>9 DEF CatalogInv

\* The inductive invariant: rows are isolated although identifiers are used
\* again, every kind of transaction has done what its next statement relies on,
\* and what it has seen of the others still holds.
THEOREM CatalogInvariance == Spec => []CatalogInv
<1>1. CatalogInv /\ [Next]_vars => CatalogInv'
  BY NextOK
<1> QED BY <1>1, InitOK, PTL DEF Spec

\* Whatever resets, imports and adjustments overlap, the balance of a product
\* is the sum of its movements: a reset that deletes the one and not the other,
\* or an adjustment that commits only one of them after a reset, would break it.
THEOREM LedgerAlwaysStands == Spec => []LedgerStands
<1>1. CatalogInv => LedgerStands
  BY DEF CatalogInv, StockInv
<1> QED BY <1>1, CatalogInvariance, PTL

\* A reset leaves the fixture of one reset and all of it, and an import all the
\* products of its run or none, although neither the two resets nor the import
\* take a lock that the others take.
THEOREM NothingByHalves == Spec => []WholeOrNotAtAll
<1>1. CatalogInv => WholeOrNotAtAll
  BY DEF CatalogInv, ImportInv, WholeOrNotAtAll
<1> QED BY <1>1, CatalogInvariance, PTL

\* However uploads, deletions of images and resets overlap, and whatever file
\* they destroy afterwards, a product refers to a stored file, unless the
\* commit of the row was carried out and reported as failed.
THEOREM ImagesStayStored == Spec => []ImageStored
<1>1. CatalogInv => ImageStored
  BY DEF CatalogInv, ImageInv
<1> QED BY <1>1, CatalogInvariance, PTL
=============================================================================
