------------------------------ MODULE StockOrders ------------------------------
(***************************************************************************)
(* Stock balances, the stock ledger, low-stock alerts and sales orders of   *)
(* one tenant, with the interleaving the API really has: every command is   *)
(* one database transaction (TenantDatabase.withTenant, READ COMMITTED)     *)
(* that takes row locks one statement at a time, and any number of commands *)
(* run concurrently.                                                        *)
(*                                                                         *)
(* The committed rows are variables; what a transaction has written but not *)
(* committed is in its own record tx[w], so that a rollback discards it and *)
(* a commit publishes all of it in one step.  Product ids are numbers: their*)
(* order is the order of the UUIDs by which the code sorts its lines.       *)
(***************************************************************************)
EXTENDS Integers, Sequences, FiniteSets

CONSTANTS
  Products,        \* product ids, ordered as localeCompare orders the UUIDs
  Orders,          \* sales order ids
  Receipts,        \* receipt numbers, unique in an organization
  Workers,         \* request handlers that hold a transaction
  None,            \* no worker, no order, no receipt
  Quantities,      \* quantities a line or an adjustment may carry
  ReorderPoints,   \* reorder points a product PATCH may set
  MaxOnHand,       \* largest value of the INTEGER column on_hand
  MaxLedger,       \* bound: movements per product
  Stocked,         \* products that have a balance row initially
  OpeningStock,    \* their on-hand quantity
  OpeningReorder   \* reorder point of each product initially

ASSUME StockAssumption ==
  /\ Products \subseteq Nat
  /\ None \notin Workers \cup Orders \cup Receipts
  /\ Quantities \subseteq Nat \ {0}
  /\ ReorderPoints \subseteq Nat
  /\ MaxOnHand \in Nat /\ MaxLedger \in Nat
  /\ Stocked \subseteq Products
  /\ OpeningStock \in [Products -> 0 .. MaxOnHand]
  /\ \A p \in Products \ Stocked : OpeningStock[p] = 0
  /\ OpeningReorder \in [Products -> Nat]

VARIABLES
  balance,      \* inventory_balances: on_hand and reserved of each product
  rows,         \* products whose balance row exists
  ledger,       \* stock_movements of each product, oldest first
  openAlerts,   \* number of low_stock_alerts rows of the product with status OPEN
  reorder,      \* products.reorder_point
  active,       \* products with is_active
  status,       \* sales_orders.status ("NONE": no such order)
  lines,        \* sales_order_lines: quantity of each product, 0 for no line
  receipts,     \* receipt numbers of goods_receipts
  balanceLock,  \* holder of the row lock of each balance
  orderLock,    \* holder of the row lock of each order
  receiptLock,  \* transaction with an uncommitted goods_receipts row
  tx            \* the transaction of each worker

rowVars  == <<balance, rows, ledger, openAlerts, status, lines, receipts>>
lockVars == <<balanceLock, orderLock, receiptLock>>
prodVars == <<reorder, active>>
vars     == <<rowVars, prodVars, lockVars, tx>>

Statuses    == {"NONE", "DRAFT", "CONFIRMED", "FULFILLED", "CANCELLED"}
Transitions == {"CONFIRMED", "FULFILLED", "CANCELLED"}
Commands    == Transitions \cup {"none", "edit", "receipt", "adjust", "reconcile"}
LineSets    == [Products -> Quantities \cup {0}]
NoLines     == [p \in Products |-> 0]

EmptyRow == [onHand |-> 0, reserved |-> 0, alert |-> "NONE"]

Idle == [pc      |-> "idle",  \* "order", "lines", "receipt", "ask", "balance"
         cmd     |-> "none",
         order   |-> None,
         receipt |-> None,
         found   |-> "NONE",  \* order status returned by lockOrder
         qty     |-> NoLines, \* quantity of each line; signed for "adjust"
         todo    |-> {},      \* products whose balance is still to be locked
         done    |-> {},      \* products whose balance is locked and written
         point   |-> NoLines, \* reorder points this transaction has read
         row     |-> [p \in Products |-> EmptyRow]]

Init ==
  /\ balance = [p \in Products |-> [onHand |-> OpeningStock[p], reserved |-> 0]]
  /\ rows = Stocked
  /\ ledger = [p \in Products |->
       IF p \in Stocked
         THEN <<[type |-> "RECEIPT", delta |-> OpeningStock[p],
                 after |-> OpeningStock[p], order |-> None]>>
         ELSE <<>>]
  /\ openAlerts = [p \in Products |->
       IF p \in Stocked /\ OpeningStock[p] <= OpeningReorder[p] THEN 1 ELSE 0]
  /\ reorder = OpeningReorder
  /\ active = Products
  /\ status = [o \in Orders |-> "NONE"]
  /\ lines = [o \in Orders |-> NoLines]
  /\ receipts = {}
  /\ balanceLock = [p \in Products |-> None]
  /\ orderLock = [o \in Orders |-> None]
  /\ receiptLock = [r \in Receipts |-> None]
  /\ tx = [w \in Workers |-> Idle]

-----------------------------------------------------------------------------
(* Pure parts: the order state machine and the inventory projection.        *)

CanTransition(from, to) ==
  \/ from = "DRAFT" /\ to \in {"CANCELLED", "CONFIRMED"}
  \/ from = "CONFIRMED" /\ to \in {"CANCELLED", "FULFILLED"}

OnHandDelta(cmd, q) ==
  CASE cmd \in {"receipt", "adjust"} -> q
    [] cmd = "FULFILLED" -> -q
    [] OTHER -> 0

ReservedDeltaLeak(cmd, q) ==
  CASE cmd = "CONFIRMED" -> q
    [] cmd = "FULFILLED" -> -q
    [] OTHER -> 0

ReservedDelta(cmd, q) ==
  CASE cmd = "CONFIRMED" -> q
    [] cmd \in {"FULFILLED", "CANCELLED"} -> -q
    [] OTHER -> 0

\* projectInventory: the row after the deltas, and when it throws instead.
ProjectInventory(bal, cmd, q) ==
  [onHand   |-> bal.onHand + OnHandDelta(cmd, q),
   reserved |-> bal.reserved + ReservedDelta(cmd, q)]

IsProjection(bal) == bal.onHand >= 0 /\ 0 <= bal.reserved /\ bal.reserved <= bal.onHand

AcceptsIgnoringReserved(bal, cmd, q) ==
  IF cmd = "CONFIRMED"
    THEN bal.onHand >= q
    ELSE IsProjection(ProjectInventory(bal, cmd, q))

\* Confirmation compares the available stock with the line itself; the other
\* commands rely on projectInventory.
Accepts(bal, cmd, q) ==
  IF cmd = "CONFIRMED"
    THEN bal.onHand - bal.reserved >= q
    ELSE IsProjection(ProjectInventory(bal, cmd, q))

Available(bal) == bal.onHand - bal.reserved

ReconcileStrictly(available, point, hasOpen) ==
  CASE available < point /\ ~hasOpen -> "OPEN"
    [] available >= point /\ hasOpen -> "RESOLVE"
    [] OTHER -> "NONE"

ReconcileOnlyOpens(available, point, hasOpen) ==
  IF available <= point /\ ~hasOpen THEN "OPEN" ELSE "NONE"

ReconcileLowStockTransition(available, point, hasOpen) ==
  CASE available <= point /\ ~hasOpen -> "OPEN"
    [] available > point /\ hasOpen -> "RESOLVE"
    [] OTHER -> "NONE"

\* An INTEGER column refuses a value it cannot hold; the statement fails.
FitsUnbounded(n) == TRUE
Fits(n) == n <= MaxOnHand

-----------------------------------------------------------------------------
(* Beginning a command.  Validation that touches no shared row (sessions,   *)
(* roles, warehouse, supplier, customer) fails without effect and is left   *)
(* out.                                                                     *)

Begin(w, fields) == tx' = [tx EXCEPT ![w] = fields]

\* PATCH /orders/:id and POST /orders/:id/{confirm,fulfill,cancel}.
RequestTransition(w, o, to) ==
  /\ tx[w].pc = "idle" /\ status[o] # "NONE"
  /\ Begin(w, [Idle EXCEPT !.pc = "order", !.cmd = to, !.order = o])
  /\ UNCHANGED <<rowVars, prodVars, lockVars>>

RequestEdit(w, o, ls) ==
  /\ tx[w].pc = "idle" /\ status[o] # "NONE" /\ ls # NoLines
  /\ Begin(w, [Idle EXCEPT !.pc = "order", !.cmd = "edit", !.order = o, !.qty = ls])
  /\ UNCHANGED <<rowVars, prodVars, lockVars>>

\* Receipt and adjustment read the products, their reorder points included,
\* before they lock any balance.
RequestReceipt(w, r, ls) ==
  /\ tx[w].pc = "idle" /\ ls # NoLines
  /\ \A p \in Products : ls[p] > 0 => p \in active /\ Len(ledger[p]) < MaxLedger
  /\ Begin(w, [Idle EXCEPT !.pc = "receipt", !.cmd = "receipt", !.receipt = r,
                           !.qty = ls, !.point = reorder])
  /\ UNCHANGED <<rowVars, prodVars, lockVars>>

RequestAdjustment(w, p, delta) ==
  /\ tx[w].pc = "idle" /\ p \in active /\ Len(ledger[p]) < MaxLedger
  /\ Begin(w, [Idle EXCEPT !.pc = "balance", !.cmd = "adjust", !.todo = {p},
                           !.qty[p] = delta, !.point = reorder])
  /\ UNCHANGED <<rowVars, prodVars, lockVars>>

\* reconcileOrganization: the rows of the statement's snapshot, joined with
\* the products of the same snapshot, then locked in product order.
RequestReconcile(w) ==
  /\ tx[w].pc = "idle"
  /\ Begin(w, [Idle EXCEPT !.pc = "balance", !.cmd = "reconcile", !.todo = rows,
                           !.point = reorder])
  /\ UNCHANGED <<rowVars, prodVars, lockVars>>

-----------------------------------------------------------------------------
(* Statements that take a lock, and what follows while it is held.          *)

OrderUnguarded(o) == TRUE
OrderFree(o) == orderLock[o] = None

\* lockOrder: SELECT status ... FOR UPDATE, which waits for the holder.
LockOrder(w) ==
  LET o == tx[w].order IN
  /\ tx[w].pc = "order" /\ OrderFree(o)
  /\ orderLock' = [orderLock EXCEPT ![o] = w]
  /\ tx' = [tx EXCEPT ![w].pc = "lines", ![w].found = status[o]]
  /\ UNCHANGED <<rowVars, prodVars, balanceLock, receiptLock>>

\* transitionOrder after the lock: reads the lines and decides which balances
\* the transition touches (cancelling a draft touches none).
ReadLines(w) ==
  LET t == tx[w]  ls == lines[t.order] IN
  /\ t.pc = "lines" /\ t.cmd \in Transitions /\ CanTransition(t.found, t.cmd)
  /\ tx' = [tx EXCEPT ![w].pc = "ask", ![w].qty = ls,
       ![w].todo = IF t.found = "DRAFT" /\ t.cmd = "CANCELLED" THEN {}
                   ELSE {p \in Products : ls[p] > 0}]
  /\ UNCHANGED <<rowVars, prodVars, lockVars>>

Editable(s) == s = "DRAFT"

\* updateDraft after the lock: the status is read again, then the lines are
\* replaced by lines of active products.
ReplaceDraftLines(w) ==
  LET t == tx[w] IN
  /\ t.pc = "lines" /\ t.cmd = "edit" /\ Editable(status[t.order])
  /\ \A p \in Products : t.qty[p] > 0 => p \in active
  /\ tx' = [tx EXCEPT ![w].pc = "ask"]
  /\ UNCHANGED <<rowVars, prodVars, lockVars>>

\* The unique index on the receipt number makes a second insert wait for the
\* transaction that inserted it first.
InsertReceipt(w) ==
  LET t == tx[w] IN
  /\ t.pc = "receipt" /\ receiptLock[t.receipt] = None /\ t.receipt \notin receipts
  /\ receiptLock' = [receiptLock EXCEPT ![t.receipt] = w]
  /\ tx' = [tx EXCEPT ![w].pc = "balance",
                      ![w].todo = {p \in Products : t.qty[p] > 0}]
  /\ UNCHANGED <<rowVars, prodVars, balanceLock, orderLock>>

AnyProduct(w, p) == p \in tx[w].todo
NextProduct(w, p) == p \in tx[w].todo /\ \A q \in tx[w].todo : p <= q

\* lockOrderBalance reads the reorder point in the snapshot of the statement
\* that then waits for the row lock.
AskBalance(w, p) ==
  /\ tx[w].pc = "ask" /\ NextProduct(w, p)
  /\ tx' = [tx EXCEPT ![w].pc = "balance", ![w].point[p] = reorder[p]]
  /\ UNCHANGED <<rowVars, prodVars, lockVars>>

BalanceUnguarded(p) == TRUE
BalanceFree(p) == balanceLock[p] = None

\* lockInventoryBalance creates a missing row, lockOrderBalance does not.
RowExists(w, p) == tx[w].cmd \in Transitions => p \in rows

\* One iteration of a command's loop over its lines: lock the balance,
\* project it, write it and reconcile its alert.
ProcessLine(w, p) ==
  LET t    == tx[w]
      next == ProjectInventory(balance[p], t.cmd, t.qty[p])
  IN
  /\ t.pc = "balance" /\ NextProduct(w, p)
  /\ RowExists(w, p) /\ BalanceFree(p)
  /\ t.cmd # "reconcile" =>
       Accepts(balance[p], t.cmd, t.qty[p]) /\ Fits(next.onHand)
  /\ balanceLock' = [balanceLock EXCEPT ![p] = w]
  /\ tx' = [tx EXCEPT ![w] = [t EXCEPT
       !.pc   = IF t.cmd \in Transitions THEN "ask" ELSE "balance",
       !.todo = @ \ {p},
       !.done = @ \cup {p},
       !.row[p] = [onHand   |-> next.onHand,
                   reserved |-> next.reserved,
                   alert    |-> ReconcileLowStockTransition(
                                  Available(next), t.point[p], openAlerts[p] > 0)]]]
  /\ UNCHANGED <<rowVars, prodVars, orderLock, receiptLock>>

-----------------------------------------------------------------------------
(* The end of a transaction.                                                *)

Release(w) ==
  /\ balanceLock' = [p \in Products |-> IF p \in tx[w].done THEN None ELSE balanceLock[p]]
  /\ orderLock' = [o \in Orders |-> IF orderLock[o] = w THEN None ELSE orderLock[o]]
  /\ receiptLock' = [r \in Receipts |-> IF receiptLock[r] = w THEN None ELSE receiptLock[r]]
  /\ tx' = [tx EXCEPT ![w] = Idle]

Movement(t, p) ==
  [type  |-> CASE t.cmd = "FULFILLED" -> "SALE"
               [] t.cmd = "receipt" -> "RECEIPT"
               [] OTHER -> "ADJUSTMENT",
   delta |-> OnHandDelta(t.cmd, t.qty[p]),
   after |-> t.row[p].onHand,
   order |-> t.order]

Moves(t, p) == p \in t.done /\ t.cmd \in {"FULFILLED", "receipt", "adjust"}

Commit(w) ==
  LET t == tx[w] IN
  /\ t.pc \in {"ask", "balance"} /\ t.todo = {}
  /\ balance' = [p \in Products |->
       IF p \in t.done THEN [onHand |-> t.row[p].onHand, reserved |-> t.row[p].reserved]
       ELSE balance[p]]
  /\ rows' = rows \cup t.done
  /\ ledger' = [p \in Products |->
       IF Moves(t, p) THEN Append(ledger[p], Movement(t, p)) ELSE ledger[p]]
  /\ openAlerts' = [p \in Products |->
       CASE p \in t.done /\ t.row[p].alert = "OPEN" -> openAlerts[p] + 1
         [] p \in t.done /\ t.row[p].alert = "RESOLVE" -> 0
         [] OTHER -> openAlerts[p]]
  /\ status' = IF t.cmd \in Transitions THEN [status EXCEPT ![t.order] = t.cmd] ELSE status
  /\ lines' = IF t.cmd = "edit" THEN [lines EXCEPT ![t.order] = t.qty] ELSE lines
  /\ receipts' = IF t.cmd = "receipt" THEN receipts \cup {t.receipt} ELSE receipts
  /\ Release(w)
  /\ UNCHANGED prodVars

Rollback(w) == Release(w) /\ UNCHANGED <<rowVars, prodVars>>

\* The errors the code itself raises; each rolls the transaction back.
RejectOrder(w) ==
  LET t == tx[w] IN
  /\ t.pc = "lines"
  /\ \/ t.cmd \in Transitions /\ ~CanTransition(t.found, t.cmd)
     \/ t.cmd = "edit" /\ ~Editable(status[t.order])
     \/ t.cmd = "edit" /\ \E p \in Products : t.qty[p] > 0 /\ p \notin active
  /\ Rollback(w)

RejectReceipt(w) ==
  /\ tx[w].pc = "receipt"
  /\ receiptLock[tx[w].receipt] = None /\ tx[w].receipt \in receipts
  /\ Rollback(w)

RejectLine(w, p) ==
  LET t == tx[w] IN
  /\ t.pc = "balance" /\ NextProduct(w, p)
  /\ \/ ~RowExists(w, p)
     \/ /\ BalanceFree(p) /\ t.cmd # "reconcile"
        /\ \/ ~Accepts(balance[p], t.cmd, t.qty[p])
           \/ ~Fits(ProjectInventory(balance[p], t.cmd, t.qty[p]).onHand)
  /\ Rollback(w)

\* A lost connection, a transaction timeout or a crash of the API process.
Crash(w) == tx[w].pc # "idle" /\ Rollback(w)

-----------------------------------------------------------------------------
(* Commands that are a single locked statement or touch no locked row.      *)

\* createDraftOrder: the order and its lines become visible together.
CreateDraft(o, ls) ==
  /\ status[o] = "NONE" /\ ls # NoLines
  /\ \A p \in Products : ls[p] > 0 => p \in active
  /\ status' = [status EXCEPT ![o] = "DRAFT"]
  /\ lines' = [lines EXCEPT ![o] = ls]
  /\ UNCHANGED <<balance, rows, ledger, openAlerts, receipts, prodVars, lockVars, tx>>

\* updateProduct: no balance is locked and no alert reconciled.
UpdateProduct(p, point, isActive) ==
  /\ reorder' = [reorder EXCEPT ![p] = point]
  /\ active' = IF isActive THEN active \cup {p} ELSE active \ {p}
  /\ UNCHANGED <<rowVars, lockVars, tx>>

-----------------------------------------------------------------------------
Request(w) ==
  \/ \E o \in Orders, to \in Transitions : RequestTransition(w, o, to)
  \/ \E o \in Orders, ls \in LineSets : RequestEdit(w, o, ls)
  \/ \E r \in Receipts, ls \in LineSets : RequestReceipt(w, r, ls)
  \/ \E p \in Products, q \in Quantities :
       RequestAdjustment(w, p, q) \/ RequestAdjustment(w, p, -q)
  \/ RequestReconcile(w)

Step(w) ==
  \/ LockOrder(w)
  \/ ReadLines(w)
  \/ ReplaceDraftLines(w)
  \/ InsertReceipt(w)
  \/ \E p \in Products : AskBalance(w, p) \/ ProcessLine(w, p) \/ RejectLine(w, p)
  \/ RejectOrder(w)
  \/ RejectReceipt(w)
  \/ Commit(w)

Next ==
  \/ \E w \in Workers : Request(w) \/ Step(w) \/ Crash(w)
  \/ \E o \in Orders, ls \in LineSets : CreateDraft(o, ls)
  \/ \E p \in Products, point \in ReorderPoints, isActive \in BOOLEAN :
       UpdateProduct(p, point, isActive)

Spec == Init /\ [][Next]_vars

\* A statement that waits for a row lock is served in the order of the lock's
\* queue, so a worker that can step infinitely often does.  The reconcile job
\* is started by cron again and again; nothing obliges a client to send a
\* request or a connection to be lost.
Fairness ==
  /\ \A w \in Workers : SF_vars(Step(w))
  /\ SF_vars(\E w \in Workers : RequestReconcile(w))

FairSpec == Spec /\ Fairness

-----------------------------------------------------------------------------
(* Properties.                                                              *)

Row  == [onHand : Int, reserved : Int, alert : {"NONE", "OPEN", "RESOLVE"}]
Move == [type : {"RECEIPT", "SALE", "ADJUSTMENT"}, delta : Int, after : Int,
         order : Orders \cup {None}]
Tx   == [pc      : {"idle", "order", "lines", "receipt", "ask", "balance"},
         cmd     : Commands,
         order   : Orders \cup {None},
         receipt : Receipts \cup {None},
         found   : Statuses,
         qty     : [Products -> Int],
         todo    : SUBSET Products,
         done    : SUBSET Products,
         point   : [Products -> Int],
         row     : [Products -> Row]]

\* Every variable has its type; on_hand fits its column, so no committed
\* command has overflowed it.
TypeOK ==
  /\ balance \in [Products -> [onHand : 0 .. MaxOnHand, reserved : Nat]]
  /\ rows \in SUBSET Products
  /\ ledger \in [Products -> Seq(Move)]
  /\ openAlerts \in [Products -> Nat]
  /\ reorder \in [Products -> Nat]
  /\ active \in SUBSET Products
  /\ status \in [Orders -> Statuses]
  /\ lines \in [Orders -> [Products -> Nat]]
  /\ receipts \in SUBSET Receipts
  /\ balanceLock \in [Products -> Workers \cup {None}]
  /\ orderLock \in [Orders -> Workers \cup {None}]
  /\ receiptLock \in [Receipts -> Workers \cup {None}]
  /\ tx \in [Workers -> Tx]

\* Stock is never oversold: however confirmations, fulfilments, cancellations
\* and adjustments interleave, reserved stock stays within on-hand stock.
NeverOversold ==
  \A p \in Products :
    0 <= balance[p].reserved /\ balance[p].reserved <= balance[p].onHand

\* The ledger replays to the balance: each movement's on-hand-after is the
\* previous one plus its delta, and the last one is the on-hand column.  A lost
\* update of two commands on one balance would break the chain.
LedgerReplays ==
  \A p \in Products :
    /\ \A i \in 1 .. Len(ledger[p]) :
         ledger[p][i].after =
           (IF i = 1 THEN 0 ELSE ledger[p][i - 1].after) + ledger[p][i].delta
    /\ balance[p].onHand =
         IF ledger[p] = <<>> THEN 0 ELSE ledger[p][Len(ledger[p])].after

\* The reserved column counts the units of the product in the lines of the confirmed
\* orders: no transition reserves twice, releases twice or forgets to release.
Confirmed == {o \in Orders : status[o] = "CONFIRMED"}
ConfirmedUnits(p) == UNION {{o} \X (1 .. lines[o][p]) : o \in Confirmed}

ReservedIsConfirmed ==
  \A p \in Products : balance[p].reserved = Cardinality(ConfirmedUnits(p))

\* An order has one SALE movement for each of its lines once it is fulfilled,
\* of the line's quantity, and none before.
SoldOnce ==
  \A o \in Orders, p \in Products :
    LET sales == {i \in 1 .. Len(ledger[p]) :
                    ledger[p][i].type = "SALE" /\ ledger[p][i].order = o} IN
    IF status[o] = "FULFILLED" /\ lines[o][p] > 0
      THEN \E i \in sales : sales = {i} /\ ledger[p][i].delta = -lines[o][p]
      ELSE sales = {}

\* A product never has two open low-stock alerts, so the partial unique index
\* on open alerts never turns a stock command into an error.
OneOpenAlert == \A p \in Products : openAlerts[p] <= 1

\* While no product is edited, an alert is open exactly when the committed
\* available stock is at or below the reorder point.
AlertsMatch ==
  \A p \in rows : openAlerts[p] = 1 <=> Available(balance[p]) <= reorder[p]

Waiting(w, p) ==
  /\ tx[w].pc = "balance" /\ NextProduct(w, p)
  /\ balanceLock[p] \notin {None, w}

\* Balance locks are waited for in product order only, and a transaction that
\* waits for an order or a receipt number holds no balance, so a cycle of
\* waiting transactions (a deadlock in the database) cannot form.
WaitsUphill ==
  /\ \A w, v \in Workers, p, q \in Products :
       Waiting(w, p) /\ balanceLock[p] = v /\ Waiting(v, q) => p < q
  /\ \A w \in Workers : tx[w].pc \in {"order", "receipt"} =>
       /\ \A p \in Products : balanceLock[p] # w
       /\ \A o \in Orders : orderLock[o] # w
       /\ \A r \in Receipts : receiptLock[r] # w

\* Orders move along the state machine only, lines change only in a draft, and
\* the lines a transition has reserved or sold are the lines it leaves behind.
OrderHistory ==
  [][\A o \in Orders :
       /\ status'[o] # status[o] =>
            \/ status[o] = "NONE" /\ status'[o] = "DRAFT"
            \/ CanTransition(status[o], status'[o])
       /\ lines'[o] # lines[o] =>
            status[o] \in {"NONE", "DRAFT"} /\ status'[o] = "DRAFT"]_<<status, lines>>

\* Every command ends: the waiting for rows that other commands hold is never
\* circular and never forgotten.
EveryCommandEnds == \A w \in Workers : tx[w].pc # "idle" ~> tx[w].pc = "idle"

\* docs/architecture.md: the reconcile job sees to it that "an alert cannot
\* remain stale".  A product edit, or a command that read the reorder point
\* before the edit and commits after it, leaves an alert wrong; once reorder
\* points are no longer edited and runs of the job no longer lost, every alert
\* is right for good.
AlertsCatchUp ==
  /\ <>[][reorder' = reorder]_reorder
  /\ <>[][\A w \in Workers :
            tx[w].cmd = "reconcile" /\ tx'[w].cmd # "reconcile" => Commit(w)]_vars
  => <>[]AlertsMatch

\* The committed rows behave as if every command were atomic.
Promise == INSTANCE StockPromise WITH
  onHand   <- [p \in Products |-> balance[p].onHand],
  reserved <- [p \in Products |-> balance[p].reserved]

PromiseKept == Promise!Spec
=============================================================================
