--------------------------- MODULE StockOrdersProofs ---------------------------
(***************************************************************************)
(* Safety of StockOrders for every set of products, orders, receipts and    *)
(* workers, every quantity and every opening stock.                         *)
(***************************************************************************)
EXTENDS StockOrders, FiniteSetTheorems, TLAPS

\* A buffered row is its committed row plus the deltas of its command: the lock
\* kept every other writer out between the read and now.
BufferFresh(w, p) ==
  LET t == tx[w] IN
  /\ balanceLock[p] = w
  /\ t.row[p].onHand = balance[p].onHand + OnHandDelta(t.cmd, t.qty[p])
  /\ t.row[p].reserved = balance[p].reserved + ReservedDelta(t.cmd, t.qty[p])
  /\ IsProjection(t.row[p]) /\ t.row[p].onHand <= MaxOnHand
  /\ t.row[p].alert = "OPEN" => openAlerts[p] = 0

\* What a worker knows and holds at each point of its command.
TxShape(w) ==
  LET t == tx[w] IN
  /\ \A p \in t.done : BufferFresh(w, p)
  /\ \A p \in t.done, q \in t.todo : p < q
  /\ t.pc \in {"idle", "order", "lines", "receipt"} => t.todo = {} /\ t.done = {}
  /\ t.cmd = "edit" => t.todo = {} /\ t.done = {} /\ t.qty \in [Products -> Nat]
  /\ t.pc = "lines" \/ t.pc = "ask" \/ (t.pc = "balance" /\ t.cmd \in Transitions) =>
       t.order \in Orders /\ orderLock[t.order] = w
  /\ t.pc \in {"order", "lines", "ask"} => t.cmd \in Transitions \cup {"edit"}
  /\ t.pc = "order" => t.order \in Orders
  /\ t.pc = "receipt" => t.cmd = "receipt"
  /\ t.pc = "balance" => t.cmd # "edit"
  /\ t.pc = "idle" => t.cmd = "none"
  /\ t.cmd \in Transitions /\ t.pc = "lines" => status[t.order] = t.found
  /\ t.cmd \in Transitions /\ t.pc \in {"ask", "balance"} =>
       /\ status[t.order] = t.found
       /\ CanTransition(t.found, t.cmd)
       /\ t.qty = lines[t.order]
  /\ t.cmd = "edit" /\ t.pc \in {"ask", "balance"} => status[t.order] = "DRAFT"
  /\ t.cmd = "receipt" => t.receipt \in Receipts
  /\ t.order \in Orders => status[t.order] # "NONE"

\* Every lock has the holder that knows of it.
LocksOwned ==
  /\ \A p \in Products : balanceLock[p] # None => p \in tx[balanceLock[p]].done
  /\ \A o \in Orders : orderLock[o] # None =>
       /\ tx[orderLock[o]].order = o
       /\ tx[orderLock[o]].pc \in {"lines", "ask", "balance"}
       /\ tx[orderLock[o]].cmd \in Transitions \cup {"edit"}
  /\ \A r \in Receipts : receiptLock[r] # None =>
       tx[receiptLock[r]].pc = "balance" /\ tx[receiptLock[r]].cmd = "receipt"

CommittedOK == NeverOversold /\ LedgerReplays /\ OneOpenAlert

\* The inductive invariant.
IInv ==
  /\ TypeOK
  /\ LocksOwned
  /\ \A w \in Workers : TxShape(w)
  /\ CommittedOK

-----------------------------------------------------------------------------
\* The initial state, empty or with an opening stock, satisfies the invariant.
LEMMA InitEstablishes == Init => IInv
<1> SUFFICES ASSUME Init PROVE IInv
  OBVIOUS
<1> USE StockAssumption
<1>1. TypeOK
  <2>1. Idle \in Tx
    BY DEF Idle, Tx, Row, EmptyRow, NoLines, Commands, Statuses
  <2>2. ledger \in [Products -> Seq(Move)]
    <3>1. \A m \in Move : <<m>> \in Seq(Move)
      OBVIOUS
    <3>2. ASSUME NEW p \in Products PROVE ledger[p] \in Seq(Move)
      <4> DEFINE m == [type |-> "RECEIPT", delta |-> OpeningStock[p],
                       after |-> OpeningStock[p], order |-> None]
      <4>1. ledger[p] = IF p \in Stocked THEN <<m>> ELSE <<>>
        BY DEF Init
      <4>2. m \in Move
        BY DEF Move
      <4> HIDE DEF m
      <4>3. <<>> \in Seq(Move)
        OBVIOUS
      <4> QED
        BY <3>1, <4>1, <4>2, <4>3
    <3> QED
      BY <3>2 DEF Init
  <2> QED
    BY <2>1, <2>2 DEF Init, TypeOK, NoLines, Statuses
<1>2. LocksOwned
  BY DEF Init, LocksOwned
<1>3. \A w \in Workers : TxShape(w)
  BY StockAssumption DEF Init, TxShape, Idle, Transitions
<1>4. NeverOversold
  BY DEF Init, NeverOversold
<1>5. LedgerReplays
  BY DEF Init, LedgerReplays
<1>6. OneOpenAlert
  BY DEF Init, OneOpenAlert
<1> QED
  BY <1>1, <1>2, <1>3, <1>4, <1>5, <1>6 DEF IInv, CommittedOK

-----------------------------------------------------------------------------
\* A step that writes only the record of worker w keeps the invariant if it
\* keeps the shape of w and w still knows the locks it holds.
LEMMA OwnRecordStep ==
  ASSUME IInv, NEW w \in Workers, NEW t \in Tx,
         tx' = [tx EXCEPT ![w] = t],
         UNCHANGED <<rowVars, prodVars, lockVars>>,
         TxShape(w)',
         \A p \in Products : balanceLock[p] = w => p \in t.done,
         \A o \in Orders : orderLock[o] = w =>
           /\ t.order = o
           /\ t.pc \in {"lines", "ask", "balance"}
           /\ t.cmd \in Transitions \cup {"edit"},
         \A r \in Receipts : receiptLock[r] = w => t.pc = "balance" /\ t.cmd = "receipt"
  PROVE  IInv'
<1> USE DEF IInv
<1>0. tx' \in [Workers -> Tx] /\ tx'[w] = t /\ \A v \in Workers : v # w => tx'[v] = tx[v]
  BY DEF TypeOK
<1>1. TypeOK'
  BY <1>0 DEF TypeOK, rowVars, prodVars, lockVars
<1>2. LocksOwned'
  BY <1>0, StockAssumption DEF LocksOwned, TypeOK, lockVars
<1>3. ASSUME NEW v \in Workers, v # w PROVE TxShape(v)'
  <2>1. TxShape(v) /\ tx'[v] = tx[v]
    BY <1>0, <1>3
  <2> QED
    BY <2>1 DEF TxShape, BufferFresh, rowVars, lockVars
<1>4. CommittedOK'
  BY DEF CommittedOK, NeverOversold, LedgerReplays, OneOpenAlert, rowVars
<1> QED
  BY <1>1, <1>2, <1>3, <1>4

\* An idle worker holds no lock.
LEMMA IdleHoldsNothing ==
  ASSUME IInv, NEW w \in Workers, tx[w].pc \in {"idle", "order", "receipt"}
  PROVE  /\ \A p \in Products : balanceLock[p] # w
         /\ \A o \in Orders : orderLock[o] # w
         /\ \A r \in Receipts : receiptLock[r] # w
<1>1. w # None /\ tx[w].done = {}
  BY StockAssumption DEF IInv, TxShape
<1>2. LocksOwned
  BY DEF IInv
<1>3. \A p \in Products : balanceLock[p] # w
  BY <1>1, <1>2 DEF LocksOwned
<1>4. \A o \in Orders : orderLock[o] # w
  BY <1>1, <1>2 DEF LocksOwned
<1>5. \A r \in Receipts : receiptLock[r] # w
  BY <1>1, <1>2 DEF LocksOwned
<1> QED
  BY <1>3, <1>4, <1>5

\* Line quantities are numbers.
LEMMA LinesTyped == \A ls \in LineSets : ls \in [Products -> Nat] /\ ls \in [Products -> Int]
<1>1. Quantities \cup {0} \subseteq Nat
  BY StockAssumption
<1> QED
  BY <1>1 DEF LineSets

\* A worker's record is well typed.
LEMMA TxTyped == ASSUME IInv, NEW w \in Workers PROVE tx[w] \in Tx
  BY DEF IInv, TypeOK

\* The record a request starts from is well typed.
LEMMA IdleTyped == Idle \in Tx
  BY StockAssumption DEF Idle, Tx, Row, EmptyRow, NoLines, Commands, Statuses

\* Beginning a command keeps the invariant: nothing is locked or written yet.
LEMMA RequestKeeps ==
  ASSUME IInv, NEW w \in Workers, Request(w)
  PROVE  IInv'
<1> USE DEF Begin
<1>1. ASSUME NEW o \in Orders, NEW to \in Transitions, RequestTransition(w, o, to)
      PROVE  IInv'
  <2> DEFINE t == [Idle EXCEPT !.pc = "order", !.cmd = to, !.order = o]
  <2>1. t \in Tx
    BY IdleTyped DEF Tx, Commands
  <2>2. tx[w].pc = "idle" /\ tx' = [tx EXCEPT ![w] = t]
        /\ UNCHANGED <<rowVars, prodVars, lockVars>>
    BY <1>1 DEF RequestTransition
  <2>3. TxShape(w)'
    BY <2>1, <2>2, <1>1 DEF TxShape, Idle, IInv, TypeOK, Transitions, rowVars, RequestTransition
  <2> HIDE DEF t
  <2> QED
    BY <2>1, <2>2, <2>3, IdleHoldsNothing, OwnRecordStep
<1>2. ASSUME NEW o \in Orders, NEW ls \in LineSets, RequestEdit(w, o, ls)
      PROVE  IInv'
  <2> DEFINE t == [Idle EXCEPT !.pc = "order", !.cmd = "edit", !.order = o, !.qty = ls]
  <2>0. ls \in [Products -> Nat] /\ ls \in [Products -> Int]
    BY LinesTyped
  <2>1. t \in Tx
    BY IdleTyped, <2>0 DEF Tx, Commands
  <2>2. tx[w].pc = "idle" /\ tx' = [tx EXCEPT ![w] = t]
        /\ UNCHANGED <<rowVars, prodVars, lockVars>>
    BY <1>2 DEF RequestEdit
  <2>3. TxShape(w)'
    BY <2>0, <2>1, <2>2, <1>2 DEF TxShape, Idle, IInv, TypeOK, Transitions, rowVars, RequestEdit
  <2> HIDE DEF t
  <2> QED
    BY <2>1, <2>2, <2>3, IdleHoldsNothing, OwnRecordStep
<1>3. ASSUME NEW r \in Receipts, NEW ls \in LineSets, RequestReceipt(w, r, ls)
      PROVE  IInv'
  <2> DEFINE t == [Idle EXCEPT !.pc = "receipt", !.cmd = "receipt", !.receipt = r,
                               !.qty = ls, !.point = reorder]
  <2>0. ls \in [Products -> Int] /\ reorder \in [Products -> Int]
    BY LinesTyped DEF IInv, TypeOK
  <2>1. t \in Tx
    BY IdleTyped, <2>0 DEF Tx, Commands
  <2>2. tx[w].pc = "idle" /\ tx' = [tx EXCEPT ![w] = t]
        /\ UNCHANGED <<rowVars, prodVars, lockVars>>
    BY <1>3 DEF RequestReceipt
  <2>3. TxShape(w)'
    BY <2>1, <2>2, StockAssumption DEF TxShape, Idle, IInv, TypeOK, Transitions
  <2> HIDE DEF t
  <2> QED
    BY <2>1, <2>2, <2>3, IdleHoldsNothing, OwnRecordStep
<1>4. ASSUME NEW p \in Products, NEW d \in Int, RequestAdjustment(w, p, d)
      PROVE  IInv'
  <2> DEFINE t == [Idle EXCEPT !.pc = "balance", !.cmd = "adjust", !.todo = {p},
                               !.qty[p] = d, !.point = reorder]
  <2>0. reorder \in [Products -> Int]
    BY StockAssumption DEF IInv, TypeOK
  <2>1. t \in Tx
    BY IdleTyped, <2>0 DEF Tx, Commands
  <2>2. tx[w].pc = "idle" /\ tx' = [tx EXCEPT ![w] = t]
        /\ UNCHANGED <<rowVars, prodVars, lockVars>>
    BY <1>4 DEF RequestAdjustment
  <2>3. TxShape(w)'
    BY <2>1, <2>2, StockAssumption DEF TxShape, Idle, IInv, TypeOK, Transitions
  <2> HIDE DEF t
  <2> QED
    BY <2>1, <2>2, <2>3, IdleHoldsNothing, OwnRecordStep
<1>5. ASSUME RequestReconcile(w) PROVE IInv'
  <2> DEFINE t == [Idle EXCEPT !.pc = "balance", !.cmd = "reconcile", !.todo = rows,
                               !.point = reorder]
  <2>0. rows \subseteq Products /\ reorder \in [Products -> Int]
    BY StockAssumption DEF IInv, TypeOK
  <2>1. t \in Tx
    BY IdleTyped, <2>0 DEF Tx, Commands
  <2>2. tx[w].pc = "idle" /\ tx' = [tx EXCEPT ![w] = t]
        /\ UNCHANGED <<rowVars, prodVars, lockVars>>
    BY <1>5 DEF RequestReconcile
  <2>3. TxShape(w)'
    BY <2>1, <2>2, StockAssumption DEF TxShape, Idle, IInv, TypeOK, Transitions
  <2> HIDE DEF t
  <2> QED
    BY <2>1, <2>2, <2>3, IdleHoldsNothing, OwnRecordStep
<1>6. \A q \in Quantities : q \in Int /\ -q \in Int
  BY StockAssumption
<1> QED
  BY <1>1, <1>2, <1>3, <1>4, <1>5, <1>6 DEF Request

-----------------------------------------------------------------------------
\* Releasing every lock of w without publishing anything keeps the invariant:
\* the rollback of a rejected or lost command.
LEMMA RollbackKeeps ==
  ASSUME IInv, NEW w \in Workers, Rollback(w)
  PROVE  IInv'
<1> USE DEF IInv
<1>1. UNCHANGED <<rowVars, prodVars>>
      /\ balanceLock' = [p \in Products |-> IF p \in tx[w].done THEN None ELSE balanceLock[p]]
      /\ orderLock' = [o \in Orders |-> IF orderLock[o] = w THEN None ELSE orderLock[o]]
      /\ receiptLock' = [r \in Receipts |-> IF receiptLock[r] = w THEN None ELSE receiptLock[r]]
      /\ tx' = [tx EXCEPT ![w] = Idle]
  BY DEF Rollback, Release
<1>2. tx' \in [Workers -> Tx] /\ tx'[w] = Idle /\ \A v \in Workers : v # w => tx'[v] = tx[v]
  BY <1>1, IdleTyped DEF TypeOK
<1>3. TypeOK'
  BY <1>1, <1>2 DEF TypeOK, rowVars, prodVars
<1>4. LocksOwned'
  <2>1. ASSUME NEW p \in Products, balanceLock'[p] # None
        PROVE  p \in tx'[balanceLock'[p]].done
    <3>1. balanceLock'[p] = balanceLock[p] /\ p \notin tx[w].done
      BY <1>1, <2>1
    <3>2. p \in tx[balanceLock[p]].done /\ balanceLock[p] \in Workers
      BY <3>1, <2>1 DEF LocksOwned, TypeOK
    <3> QED
      BY <3>1, <3>2, <1>2
  <2>2. ASSUME NEW o \in Orders, orderLock'[o] # None
        PROVE  /\ tx'[orderLock'[o]].order = o
               /\ tx'[orderLock'[o]].pc \in {"lines", "ask", "balance"}
               /\ tx'[orderLock'[o]].cmd \in Transitions \cup {"edit"}
    <3>1. orderLock'[o] = orderLock[o] /\ orderLock[o] \in Workers \ {w}
      BY <1>1, <2>2 DEF TypeOK
    <3> QED
      BY <3>1, <2>2, <1>2 DEF LocksOwned
  <2>3. ASSUME NEW r \in Receipts, receiptLock'[r] # None
        PROVE  tx'[receiptLock'[r]].pc = "balance" /\ tx'[receiptLock'[r]].cmd = "receipt"
    <3>1. receiptLock'[r] = receiptLock[r] /\ receiptLock[r] \in Workers \ {w}
      BY <1>1, <2>3 DEF TypeOK
    <3> QED
      BY <3>1, <2>3, <1>2 DEF LocksOwned
  <2> QED
    BY <2>1, <2>2, <2>3 DEF LocksOwned
<1>5. ASSUME NEW v \in Workers PROVE TxShape(v)'
  <2>1. CASE v = w
    BY <1>2, <2>1, StockAssumption DEF TxShape, Idle, Transitions
  <2>2. CASE v # w
    <3>1. tx'[v] = tx[v] /\ TxShape(v)
      BY <1>2, <2>2
    <3>2. \A p \in tx[v].done : BufferFresh(v, p)'
      <4> SUFFICES ASSUME NEW p \in tx[v].done PROVE BufferFresh(v, p)'
        OBVIOUS
      <4>1. BufferFresh(v, p) /\ p \in Products
        BY <3>1 DEF TxShape, TypeOK, Tx
      <4>2. p \notin tx[w].done
        BY <4>1, <2>2 DEF TxShape, BufferFresh
      <4> QED
        BY <3>1, <4>1, <4>2, <1>1 DEF BufferFresh, rowVars
    <3>3. \A o \in Orders : orderLock[o] = v => orderLock'[o] = v
      BY <1>1, <2>2
    <3> QED
      BY <3>1, <3>2, <3>3, <1>1 DEF TxShape, rowVars
  <2> QED
    BY <2>1, <2>2
<1>6. CommittedOK'
  BY <1>1 DEF CommittedOK, NeverOversold, LedgerReplays, OneOpenAlert, rowVars
<1> QED
  BY <1>3, <1>4, <1>5, <1>6

-----------------------------------------------------------------------------
\* Taking the order lock and the steps that follow it without a balance.
LEMMA LockOrderKeeps ==
  ASSUME IInv, NEW w \in Workers, LockOrder(w)
  PROVE  IInv'
<1> USE DEF IInv
<1> DEFINE o == tx[w].order
           t == [tx[w] EXCEPT !.pc = "lines", !.found = status[o]]
<1>1. tx[w].pc = "order" /\ o \in Orders /\ orderLock[o] = None
  BY DEF LockOrder, OrderFree, TxShape
<1>2. /\ orderLock' = [orderLock EXCEPT ![o] = w]
      /\ tx' = [tx EXCEPT ![w] = t]
      /\ UNCHANGED <<rowVars, prodVars, balanceLock, receiptLock>>
  BY DEF LockOrder, TypeOK
<1>3. t \in Tx
  <2>1. status[o] \in Statuses
    BY <1>1 DEF TypeOK
  <2> QED
    BY <2>1, TxTyped DEF Tx
<1>4. tx' \in [Workers -> Tx] /\ tx'[w] = t /\ \A v \in Workers : v # w => tx'[v] = tx[v]
  BY <1>2, <1>3 DEF TypeOK
<1>5. TypeOK'
  BY <1>2, <1>4, <1>1 DEF TypeOK, rowVars, prodVars
<1>6. tx[w].done = {} /\ tx[w].todo = {} /\ tx[w].cmd \in Transitions \cup {"edit"}
  BY <1>1 DEF TxShape
<1>7. LocksOwned'
  BY <1>1, <1>2, <1>4, <1>6, IdleHoldsNothing, StockAssumption DEF LocksOwned, TypeOK
<1>8. ASSUME NEW v \in Workers PROVE TxShape(v)'
  <2>1. CASE v = w
    BY ZenonT(40), <1>1, <1>2, <1>3, <1>4, <1>6, <2>1 DEF TxShape, rowVars, Transitions, Tx, TypeOK
  <2>2. CASE v # w
    BY <1>1, <1>2, <1>4, <2>2, StockAssumption DEF TxShape, BufferFresh, rowVars, TypeOK
  <2> QED
    BY <2>1, <2>2
<1>9. CommittedOK'
  BY <1>2 DEF CommittedOK, NeverOversold, LedgerReplays, OneOpenAlert, rowVars
<1> QED
  BY <1>5, <1>7, <1>8, <1>9

LEMMA ReadLinesKeeps ==
  ASSUME IInv, NEW w \in Workers, ReadLines(w)
  PROVE  IInv'
<1> DEFINE ls == lines[tx[w].order]
           todo == IF tx[w].found = "DRAFT" /\ tx[w].cmd = "CANCELLED" THEN {}
                   ELSE {p \in Products : ls[p] > 0}
           t == [tx[w] EXCEPT !.pc = "ask", !.qty = ls, !.todo = todo]
<1>1. /\ tx[w].pc = "lines" /\ tx[w].cmd \in Transitions
      /\ CanTransition(tx[w].found, tx[w].cmd)
      /\ tx' = [tx EXCEPT ![w] = t]
      /\ UNCHANGED <<rowVars, prodVars, lockVars>>
  BY DEF ReadLines, IInv, TypeOK
<1>2. tx[w].order \in Orders /\ orderLock[tx[w].order] = w /\ tx[w].done = {}
      /\ status[tx[w].order] = tx[w].found /\ status[tx[w].order] # "NONE"
  BY <1>1 DEF IInv, TxShape
<1>3. ls \in [Products -> Nat] /\ ls \in [Products -> Int] /\ todo \subseteq Products
  BY <1>2 DEF IInv, TypeOK
<1>4. t \in Tx
  <2> HIDE DEF todo, ls
  <2> QED
    BY ZenonT(40), <1>3, TxTyped DEF Tx
<1>5. TxShape(w)'
  <2> HIDE DEF todo
  <2>1. tx'[w] = t /\ status' = status /\ lines' = lines /\ orderLock' = orderLock
    BY <1>1, <1>4 DEF IInv, TypeOK, rowVars, lockVars
  <2>2. t.pc = "ask" /\ t.done = {} /\ t.qty = ls /\ t.cmd = tx[w].cmd /\ t.order = tx[w].order
        /\ t.found = tx[w].found
    BY <1>2 DEF IInv, TypeOK, Tx
  <2> HIDE DEF t
  <2> QED
    BY <1>1, <1>2, <2>1, <2>2 DEF TxShape, Transitions
<1>6. /\ \A p \in Products : balanceLock[p] = w => p \in t.done
      /\ \A o \in Orders : orderLock[o] = w => t.order = o
      /\ \A r \in Receipts : receiptLock[r] # w
      /\ t.pc = "ask" /\ t.cmd = tx[w].cmd
  <2>1. t.pc = "ask" /\ t.done = tx[w].done /\ t.cmd = tx[w].cmd /\ t.order = tx[w].order
    BY TxTyped DEF Tx
  <2> HIDE DEF t
  <2> QED
    BY <1>1, <2>1, StockAssumption DEF IInv, LocksOwned
<1> HIDE DEF t
<1> QED
  BY <1>1, <1>4, <1>5, <1>6, OwnRecordStep

LEMMA ReplaceDraftLinesKeeps ==
  ASSUME IInv, NEW w \in Workers, ReplaceDraftLines(w)
  PROVE  IInv'
<1> DEFINE t == [tx[w] EXCEPT !.pc = "ask"]
<1>1. /\ tx[w].pc = "lines" /\ tx[w].cmd = "edit" /\ status[tx[w].order] = "DRAFT"
      /\ tx' = [tx EXCEPT ![w] = t]
      /\ UNCHANGED <<rowVars, prodVars, lockVars>>
  BY DEF ReplaceDraftLines, Editable, IInv, TypeOK
<1>2. t \in Tx
  BY TxTyped DEF Tx
<1>0. /\ t.pc = "ask" /\ t.done = tx[w].done /\ t.todo = tx[w].todo /\ t.cmd = tx[w].cmd
      /\ t.order = tx[w].order /\ t.qty = tx[w].qty
  BY TxTyped DEF Tx
<1> HIDE DEF t
<1>3. TxShape(w)'
  <2>1. tx'[w] = t /\ TxShape(w)
    BY <1>1, <1>2 DEF IInv, TypeOK
  <2> QED
    BY <1>0, <1>1, <2>1 DEF TxShape, rowVars, lockVars, Transitions
<1>4. /\ \A p \in Products : balanceLock[p] = w => p \in t.done
      /\ \A o \in Orders : orderLock[o] = w => t.order = o
      /\ \A r \in Receipts : receiptLock[r] # w
      /\ t.pc = "ask" /\ t.cmd = "edit"
  BY <1>0, <1>1, StockAssumption DEF IInv, LocksOwned
<1> QED
  BY <1>1, <1>2, <1>3, <1>4, OwnRecordStep

LEMMA InsertReceiptKeeps ==
  ASSUME IInv, NEW w \in Workers, InsertReceipt(w)
  PROVE  IInv'
<1> USE DEF IInv
<1> DEFINE r == tx[w].receipt
           todo == {p \in Products : tx[w].qty[p] > 0}
           t == [tx[w] EXCEPT !.pc = "balance", !.todo = todo]
<1>1. /\ tx[w].pc = "receipt" /\ receiptLock[r] = None
      /\ receiptLock' = [receiptLock EXCEPT ![r] = w]
      /\ tx' = [tx EXCEPT ![w] = t]
      /\ UNCHANGED <<rowVars, prodVars, balanceLock, orderLock>>
  BY DEF InsertReceipt, TypeOK
<1>2. t \in Tx
  BY TxTyped DEF Tx
<1>3. /\ t.pc = "balance" /\ t.done = tx[w].done /\ t.todo = todo /\ t.cmd = tx[w].cmd
      /\ t.order = tx[w].order /\ t.receipt = r
  BY TxTyped DEF Tx
<1> HIDE DEF t
<1>4. tx' \in [Workers -> Tx] /\ tx'[w] = t /\ \A v \in Workers : v # w => tx'[v] = tx[v]
  BY <1>1, <1>2 DEF TypeOK
<1>5. tx[w].cmd = "receipt" /\ tx[w].done = {} /\ r \in Receipts
  <2>1. TxShape(w)
    OBVIOUS
  <2> QED
    BY <1>1, <2>1 DEF TxShape
<1>6. TypeOK'
  BY <1>1, <1>4, <1>5 DEF TypeOK, rowVars, prodVars
<1>7. LocksOwned'
  <2>2. /\ \A q \in Products : balanceLock[q] # w
        /\ \A o \in Orders : orderLock[o] # w
    BY <1>1, IdleHoldsNothing
  <2>3. \A q \in Products : balanceLock'[q] # None => q \in tx'[balanceLock'[q]].done
    BY <1>1, <1>4, <2>2 DEF LocksOwned, TypeOK
  <2>4. \A o \in Orders : orderLock'[o] # None =>
          /\ tx'[orderLock'[o]].order = o
          /\ tx'[orderLock'[o]].pc \in {"lines", "ask", "balance"}
          /\ tx'[orderLock'[o]].cmd \in Transitions \cup {"edit"}
    BY <1>1, <1>4, <2>2 DEF LocksOwned, TypeOK
  <2>5. ASSUME NEW x \in Receipts, receiptLock'[x] # None
        PROVE  tx'[receiptLock'[x]].pc = "balance" /\ tx'[receiptLock'[x]].cmd = "receipt"
    <3>1. CASE x = r
      BY <3>1, <1>1, <1>3, <1>4, <1>5 DEF TypeOK
    <3>2. CASE x # r
      <4>1. receiptLock'[x] = receiptLock[x] /\ receiptLock[x] \in Workers
        BY <3>2, <2>5, <1>1 DEF TypeOK
      <4> QED
        BY <4>1, <2>5, <1>3, <1>4, <1>5 DEF LocksOwned
    <3> QED
      BY <3>1, <3>2
  <2> QED
    BY <2>3, <2>4, <2>5 DEF LocksOwned
<1>8. ASSUME NEW v \in Workers PROVE TxShape(v)'
  <2>1. CASE v = w
    BY <1>1, <1>3, <1>4, <1>5, <2>1 DEF TxShape, rowVars, Transitions
  <2>2. CASE v # w
    BY <1>1, <1>4, <2>2 DEF TxShape, BufferFresh, rowVars
  <2> QED
    BY <2>1, <2>2
<1>9. CommittedOK'
  BY <1>1 DEF CommittedOK, NeverOversold, LedgerReplays, OneOpenAlert, rowVars
<1> QED
  BY <1>6, <1>7, <1>8, <1>9

LEMMA AskBalanceKeeps ==
  ASSUME IInv, NEW w \in Workers, NEW p \in Products, AskBalance(w, p)
  PROVE  IInv'
<1> DEFINE t == [tx[w] EXCEPT !.pc = "balance", !.point[p] = reorder[p]]
<1>1. /\ tx[w].pc = "ask" /\ p \in tx[w].todo
      /\ tx' = [tx EXCEPT ![w] = t]
      /\ UNCHANGED <<rowVars, prodVars, lockVars>>
  BY ZenonT(40) DEF AskBalance, NextProduct, IInv, TypeOK
<1>2. t \in Tx
  <2>1. reorder[p] \in Int
    BY DEF IInv, TypeOK
  <2> QED
    BY ZenonT(40), <2>1, TxTyped DEF Tx
<1>3. /\ t.pc = "balance" /\ t.done = tx[w].done /\ t.todo = tx[w].todo
      /\ t.cmd = tx[w].cmd /\ t.order = tx[w].order /\ t.qty = tx[w].qty
      /\ t.found = tx[w].found /\ t.row = tx[w].row /\ t.receipt = tx[w].receipt
  BY TxTyped DEF Tx
<1> HIDE DEF t
<1>4. tx[w].cmd \in Transitions
  BY <1>1 DEF IInv, TxShape
<1>5. TxShape(w)'
  <2>1. tx'[w] = t /\ TxShape(w)
    BY <1>1, <1>2 DEF IInv, TypeOK
  <2> QED
    BY <1>1, <1>3, <1>4, <2>1 DEF TxShape, BufferFresh, rowVars, lockVars, Transitions
<1>6. /\ \A q \in Products : balanceLock[q] = w => q \in t.done
      /\ \A o \in Orders : orderLock[o] = w => t.order = o
      /\ \A r \in Receipts : receiptLock[r] # w
  BY <1>1, <1>3, StockAssumption DEF IInv, LocksOwned
<1> QED
  BY <1>1, <1>2, <1>3, <1>4, <1>5, <1>6, OwnRecordStep

\* An accepted line leaves the row a projection: for a confirmation because the
\* line fits into what is available, otherwise because projectInventory says so.
LEMMA AcceptedIsProjection ==
  ASSUME NEW bal, bal.onHand \in Nat, bal.reserved \in Nat, bal.reserved <= bal.onHand,
         NEW cmd \in Commands, NEW q \in Int, cmd = "CONFIRMED" => q \in Nat,
         cmd # "reconcile" => Accepts(bal, cmd, q)
  PROVE  /\ IsProjection(ProjectInventory(bal, cmd, q))
         /\ ProjectInventory(bal, cmd, q).onHand \in Int
         /\ ProjectInventory(bal, cmd, q).reserved \in Int
<1>1. CASE cmd = "CONFIRMED"
  BY <1>1 DEF Accepts, IsProjection, ProjectInventory, OnHandDelta, ReservedDelta
<1>2. CASE cmd = "reconcile"
  BY <1>2 DEF IsProjection, ProjectInventory, OnHandDelta, ReservedDelta
<1>3. CASE cmd \notin {"CONFIRMED", "reconcile"}
  BY <1>3 DEF Accepts, IsProjection, ProjectInventory, OnHandDelta, ReservedDelta
<1> QED
  BY <1>1, <1>2, <1>3

\* Locking, projecting and writing one balance keeps the invariant.
LEMMA ProcessLineKeeps ==
  ASSUME IInv, NEW w \in Workers, NEW p \in Products, ProcessLine(w, p)
  PROVE  IInv'
<1> USE DEF IInv
<1> DEFINE next == ProjectInventory(balance[p], tx[w].cmd, tx[w].qty[p])
           alert == ReconcileLowStockTransition(
                      Available(next), tx[w].point[p], openAlerts[p] > 0)
           new == [onHand |-> next.onHand, reserved |-> next.reserved, alert |-> alert]
           pc == IF tx[w].cmd \in Transitions THEN "ask" ELSE "balance"
           t == [tx[w] EXCEPT !.pc = pc, !.todo = @ \ {p}, !.done = @ \cup {p},
                              !.row[p] = new]
<1>1. /\ tx[w].pc = "balance" /\ p \in tx[w].todo /\ \A q \in tx[w].todo : p <= q
      /\ balanceLock[p] = None
      /\ tx[w].cmd # "reconcile" =>
           Accepts(balance[p], tx[w].cmd, tx[w].qty[p]) /\ next.onHand <= MaxOnHand
      /\ balanceLock' = [balanceLock EXCEPT ![p] = w]
      /\ UNCHANGED <<rowVars, prodVars, orderLock, receiptLock>>
  BY DEF ProcessLine, NextProduct, BalanceFree, Fits
<1>2. tx' = [tx EXCEPT ![w] = t]
  BY DEF ProcessLine, TypeOK
<1>3. /\ tx[w].cmd \in Commands /\ tx[w].qty[p] \in Int /\ tx[w].point[p] \in Int
      /\ tx[w].done \subseteq Products /\ tx[w].todo \subseteq Products
  BY TxTyped DEF Tx
<1>4. /\ balance[p].onHand \in Nat /\ balance[p].reserved \in Nat
      /\ balance[p].reserved <= balance[p].onHand /\ balance[p].onHand <= MaxOnHand
  BY StockAssumption DEF TypeOK, CommittedOK, NeverOversold
<1>5. tx[w].cmd = "CONFIRMED" => tx[w].qty[p] \in Nat
  <2>1. tx[w].cmd = "CONFIRMED" => tx[w].qty = lines[tx[w].order] /\ tx[w].order \in Orders
    BY <1>1 DEF TxShape, Transitions
  <2> QED
    BY <2>1 DEF TypeOK
<1>6. IsProjection(next) /\ next.onHand \in Int /\ next.reserved \in Int
  BY <1>1, <1>3, <1>4, <1>5, AcceptedIsProjection
<1>7. next.onHand <= MaxOnHand
  <2>1. CASE tx[w].cmd = "reconcile"
    BY <1>4, <2>1 DEF ProjectInventory, OnHandDelta
  <2> QED
    BY <1>1, <2>1
<1>8. /\ next.onHand = balance[p].onHand + OnHandDelta(tx[w].cmd, tx[w].qty[p])
      /\ next.reserved = balance[p].reserved + ReservedDelta(tx[w].cmd, tx[w].qty[p])
  BY DEF ProjectInventory
<1>9. alert \in {"NONE", "OPEN", "RESOLVE"} /\ (alert = "OPEN" => openAlerts[p] = 0)
  BY DEF ReconcileLowStockTransition, TypeOK
<1> HIDE DEF next, alert
<1>10. new \in Row
  BY <1>6, <1>9 DEF Row
<1>11. /\ new.onHand = next.onHand /\ new.reserved = next.reserved /\ new.alert = alert
  OBVIOUS
<1> HIDE DEF new
<1>12. t \in Tx
  <2>1. pc \in {"ask", "balance"}
    OBVIOUS
  <2>2. [tx[w].row EXCEPT ![p] = new] \in [Products -> Row]
    BY <1>10, TxTyped DEF Tx
  <2>3. tx[w].todo \ {p} \in SUBSET Products /\ tx[w].done \cup {p} \in SUBSET Products
    BY <1>3
  <2> DEFINE row == [tx[w].row EXCEPT ![p] = new]
             t1 == [tx[w] EXCEPT !.pc = pc, !.todo = tx[w].todo \ {p}]
             t2 == [t1 EXCEPT !.done = tx[w].done \cup {p}, !.row = row]
  <2>4. t = t2
    BY TxTyped DEF Tx
  <2> HIDE DEF pc, t, row
  <2>5. t1 \in Tx
    BY <2>1, <2>3, TxTyped DEF Tx
  <2> HIDE DEF t1
  <2>6. t2 \in Tx
    BY <2>2, <2>3, <2>5 DEF Tx, row
  <2> QED
    BY <2>4, <2>6
<1>13. /\ t.pc = pc /\ t.todo = tx[w].todo \ {p} /\ t.done = tx[w].done \cup {p}
       /\ t.cmd = tx[w].cmd /\ t.order = tx[w].order /\ t.qty = tx[w].qty
       /\ t.found = tx[w].found /\ t.receipt = tx[w].receipt
       /\ t.row = [tx[w].row EXCEPT ![p] = new]
  BY TxTyped DEF Tx
<1>14. t.row[p] = new /\ \A q \in Products : q # p => t.row[q] = tx[w].row[q]
  BY <1>13, TxTyped DEF Tx
<1> HIDE DEF t
<1>15. tx' \in [Workers -> Tx] /\ tx'[w] = t /\ \A v \in Workers : v # w => tx'[v] = tx[v]
  BY <1>2, <1>12 DEF TypeOK
<1>16. TypeOK'
  BY <1>1, <1>15 DEF TypeOK, rowVars, prodVars
<1>17. /\ balanceLock'[p] = w
       /\ \A q \in Products : q # p => balanceLock'[q] = balanceLock[q]
  BY <1>1 DEF TypeOK
<1>18. LocksOwned'
  <2>0. \A v \in Workers :
          /\ tx'[v].done = IF v = w THEN tx[w].done \cup {p} ELSE tx[v].done
          /\ tx'[v].order = tx[v].order /\ tx'[v].cmd = tx[v].cmd
          /\ tx'[v].pc = IF v = w THEN pc ELSE tx[v].pc
    BY <1>13, <1>15
  <2> HIDE DEF pc
  <2>1. ASSUME NEW q \in Products, balanceLock'[q] # None
        PROVE  q \in tx'[balanceLock'[q]].done
    <3>1. CASE q = p
      BY <3>1, <1>17, <2>0
    <3>2. CASE q # p
      <4>1. balanceLock'[q] \in Workers /\ q \in tx[balanceLock'[q]].done
        BY <3>2, <2>1, <1>17 DEF LocksOwned, TypeOK
      <4> QED
        BY <4>1, <2>0
    <3> QED
      BY <3>1, <3>2
  <2>2. ASSUME NEW o \in Orders, orderLock'[o] # None
        PROVE  /\ tx'[orderLock'[o]].order = o
               /\ tx'[orderLock'[o]].pc \in {"lines", "ask", "balance"}
               /\ tx'[orderLock'[o]].cmd \in Transitions \cup {"edit"}
    <3>1. orderLock'[o] = orderLock[o] /\ orderLock[o] \in Workers
      BY <2>2, <1>1 DEF TypeOK
    <3>2. pc \in {"ask", "balance"}
      BY DEF pc
    <3> QED
      BY <3>1, <3>2, <2>0, <2>2 DEF LocksOwned
  <2>3. ASSUME NEW r \in Receipts, receiptLock'[r] # None
        PROVE  tx'[receiptLock'[r]].pc = "balance" /\ tx'[receiptLock'[r]].cmd = "receipt"
    <3>1. receiptLock'[r] = receiptLock[r] /\ receiptLock[r] \in Workers
      BY <2>3, <1>1 DEF TypeOK
    <3>2. tx[w].cmd = "receipt" => pc = "balance"
      BY DEF pc, Transitions
    <3> QED
      BY <3>1, <3>2, <2>0, <2>3 DEF LocksOwned
  <2> QED
    BY <2>1, <2>2, <2>3 DEF LocksOwned
<1>19. ASSUME NEW v \in Workers PROVE TxShape(v)'
  <2>1. CASE v = w
    <3>1. TxShape(w) /\ tx'[w] = t
      BY <1>15
    <3>2. \A q \in t.done : BufferFresh(w, q)'
      <4> SUFFICES ASSUME NEW q \in t.done PROVE BufferFresh(w, q)'
        OBVIOUS
      <4>1. CASE q = p
        <5>1. /\ t.row[p].onHand = next.onHand /\ t.row[p].reserved = next.reserved
              /\ t.row[p].alert = alert /\ balance' = balance /\ openAlerts' = openAlerts
          BY <1>1, <1>11, <1>14 DEF rowVars
        <5>2. IsProjection(t.row[p])
          BY <5>1, <1>6 DEF IsProjection
        <5> QED
          BY <4>1, <5>1, <5>2, <1>7, <1>8, <1>9, <1>13, <1>17, <3>1 DEF BufferFresh
      <4>2. CASE q # p
        <5>1. q \in tx[w].done /\ q \in Products /\ BufferFresh(w, q)
          BY <4>2, <1>3, <1>13, <3>1 DEF TxShape
        <5>2. /\ t.row[q] = tx[w].row[q] /\ balanceLock'[q] = balanceLock[q]
              /\ balance' = balance /\ openAlerts' = openAlerts
          BY <5>1, <4>2, <1>1, <1>14, <1>17 DEF rowVars
        <5> QED
          BY <5>1, <5>2, <1>13, <3>1 DEF BufferFresh
      <4> QED
        BY <4>1, <4>2
    <3>3. \A x \in t.done, q \in t.todo : x < q
      <4> SUFFICES ASSUME NEW x \in t.done, NEW q \in t.todo PROVE x < q
        OBVIOUS
      <4>1. q \in tx[w].todo /\ q # p /\ p \in Nat /\ q \in Nat
        BY <1>3, <1>13, StockAssumption
      <4>2. CASE x = p
        BY <4>1, <4>2, <1>1
      <4>3. CASE x # p
        BY <4>1, <4>3, <1>13, <3>1 DEF TxShape
      <4> QED
        BY <4>2, <4>3
    <3>4. tx[w].cmd # "edit" /\ t.pc \in {"ask", "balance"}
      BY <1>1, <1>13, <3>1 DEF TxShape
    <3>5. tx[w].cmd \in Transitions => tx[w].order \in Orders /\ orderLock[tx[w].order] = w
      BY <1>1, <3>1 DEF TxShape
    <3>6. t.pc = "ask" => tx[w].cmd \in Transitions
      BY <1>13
    <3> QED
      BY <1>1, <1>13, <3>1, <3>2, <3>3, <3>4, <3>5, <3>6, <2>1
         DEF TxShape, rowVars
  <2>2. CASE v # w
    <3>1. TxShape(v) /\ tx'[v] = tx[v] /\ tx[v].done \subseteq Products
      BY <1>15, <2>2, TxTyped DEF Tx
    <3>2. \A q \in tx[v].done : BufferFresh(v, q)'
      <4> SUFFICES ASSUME NEW q \in tx[v].done PROVE BufferFresh(v, q)'
        OBVIOUS
      <4>1. BufferFresh(v, q) /\ balanceLock[q] = v /\ q \in Products
        BY <3>1 DEF TxShape, BufferFresh
      <4>2. q # p
        BY <4>1, <1>1, StockAssumption
      <4> QED
        BY <4>1, <4>2, <1>1, <1>17, <3>1 DEF BufferFresh, rowVars
    <3> QED
      BY <1>1, <3>1, <3>2 DEF TxShape, rowVars
  <2> QED
    BY <2>1, <2>2
<1>20. CommittedOK'
  BY <1>1 DEF CommittedOK, NeverOversold, LedgerReplays, OneOpenAlert, rowVars
<1> QED
  BY <1>16, <1>18, <1>19, <1>20

-----------------------------------------------------------------------------
\* Publishing a transaction: the rows it locked are still the rows it read.
LEMMA CommitKeeps ==
  ASSUME IInv, NEW w \in Workers, Commit(w)
  PROVE  IInv'
<1> USE DEF IInv
<1> DEFINE t == tx[w]
<1>1. /\ t.pc \in {"ask", "balance"} /\ t.todo = {}
      /\ balance' = [p \in Products |->
           IF p \in t.done THEN [onHand |-> t.row[p].onHand, reserved |-> t.row[p].reserved]
           ELSE balance[p]]
      /\ rows' = rows \cup t.done
      /\ ledger' = [p \in Products |->
           IF Moves(t, p) THEN Append(ledger[p], Movement(t, p)) ELSE ledger[p]]
      /\ openAlerts' = [p \in Products |->
           CASE p \in t.done /\ t.row[p].alert = "OPEN" -> openAlerts[p] + 1
             [] p \in t.done /\ t.row[p].alert = "RESOLVE" -> 0
             [] OTHER -> openAlerts[p]]
      /\ status' = IF t.cmd \in Transitions THEN [status EXCEPT ![t.order] = t.cmd] ELSE status
      /\ lines' = IF t.cmd = "edit" THEN [lines EXCEPT ![t.order] = t.qty] ELSE lines
      /\ receipts' = IF t.cmd = "receipt" THEN receipts \cup {t.receipt} ELSE receipts
      /\ UNCHANGED prodVars
  BY DEF Commit
<1>2. /\ balanceLock' = [p \in Products |-> IF p \in t.done THEN None ELSE balanceLock[p]]
      /\ orderLock' = [o \in Orders |-> IF orderLock[o] = w THEN None ELSE orderLock[o]]
      /\ receiptLock' = [r \in Receipts |-> IF receiptLock[r] = w THEN None ELSE receiptLock[r]]
      /\ tx' = [tx EXCEPT ![w] = Idle]
  BY DEF Commit, Release
<1>3. t \in Tx /\ TxShape(w)
  BY TxTyped
<1>4. /\ t.cmd \in Commands /\ t.done \subseteq Products /\ t.qty \in [Products -> Int]
      /\ t.row \in [Products -> Row] /\ t.order \in Orders \cup {None}
  BY <1>3 DEF Tx
<1>5. ASSUME NEW p \in t.done
      PROVE  /\ p \in Products /\ balanceLock[p] = w
             /\ t.row[p].onHand = balance[p].onHand + OnHandDelta(t.cmd, t.qty[p])
             /\ t.row[p].onHand \in 0 .. MaxOnHand /\ t.row[p].reserved \in Nat
             /\ t.row[p].reserved <= t.row[p].onHand
             /\ t.row[p].alert = "OPEN" => openAlerts[p] = 0
  BY <1>3, <1>4 DEF TxShape, BufferFresh, IsProjection, Row
<1>6. t.cmd \in Transitions \cup {"edit"} => t.order \in Orders /\ orderLock[t.order] = w
  <2>1. CASE t.cmd \in Transitions
    BY <1>1, <1>3, <2>1 DEF TxShape
  <2>2. CASE t.cmd = "edit"
    BY <1>1, <1>3, <2>2 DEF TxShape
  <2> QED
    BY <2>1, <2>2
<1>7. tx' \in [Workers -> Tx] /\ tx'[w] = Idle /\ \A v \in Workers : v # w => tx'[v] = tx[v]
  BY <1>2, IdleTyped DEF TypeOK
<1> HIDE DEF t
<1>8. TypeOK'
  <2>1. balance' \in [Products -> [onHand : 0 .. MaxOnHand, reserved : Nat]]
    BY <1>1, <1>5 DEF TypeOK
  <2>2. ledger' \in [Products -> Seq(Move)]
    <3> SUFFICES ASSUME NEW p \in Products
                 PROVE  (IF Moves(t, p) THEN Append(ledger[p], Movement(t, p))
                         ELSE ledger[p]) \in Seq(Move)
      BY <1>1
    <3>1. ledger[p] \in Seq(Move)
      BY DEF TypeOK
    <3>2. Movement(t, p) \in Move
      <4>1. OnHandDelta(t.cmd, t.qty[p]) \in Int
        BY <1>4 DEF OnHandDelta
      <4> QED
        BY <1>4, <4>1 DEF Movement, Move, Row
    <3> QED
      BY <3>1, <3>2
  <2>3. openAlerts' \in [Products -> Nat]
    BY <1>1, <1>5 DEF TypeOK
  <2>4. status' \in [Orders -> Statuses] /\ lines' \in [Orders -> [Products -> Nat]]
    BY <1>1, <1>3, <1>6 DEF TypeOK, Statuses, Transitions, TxShape, t
  <2>5. receipts' \in SUBSET Receipts
    BY <1>1, <1>3 DEF TypeOK, TxShape, t
  <2>6. /\ balanceLock' \in [Products -> Workers \cup {None}]
        /\ orderLock' \in [Orders -> Workers \cup {None}]
        /\ receiptLock' \in [Receipts -> Workers \cup {None}]
    BY <1>2 DEF TypeOK
  <2> QED
    BY <1>1, <1>4, <1>7, <2>1, <2>2, <2>3, <2>4, <2>5, <2>6 DEF TypeOK, prodVars
<1>9. LocksOwned'
  <2>1. ASSUME NEW p \in Products, balanceLock'[p] # None
        PROVE  p \in tx'[balanceLock'[p]].done
    <3>1. balanceLock'[p] = balanceLock[p] /\ p \notin tx[w].done
      BY <1>2, <2>1 DEF t
    <3>2. p \in tx[balanceLock[p]].done /\ balanceLock[p] \in Workers
      BY <3>1, <2>1 DEF LocksOwned, TypeOK
    <3> QED
      BY <3>1, <3>2, <1>7
  <2>2. ASSUME NEW o \in Orders, orderLock'[o] # None
        PROVE  /\ tx'[orderLock'[o]].order = o
               /\ tx'[orderLock'[o]].pc \in {"lines", "ask", "balance"}
               /\ tx'[orderLock'[o]].cmd \in Transitions \cup {"edit"}
    <3>1. orderLock'[o] = orderLock[o] /\ orderLock[o] \in Workers \ {w}
      BY <1>2, <2>2 DEF TypeOK
    <3> QED
      BY <3>1, <2>2, <1>7 DEF LocksOwned
  <2>3. ASSUME NEW r \in Receipts, receiptLock'[r] # None
        PROVE  tx'[receiptLock'[r]].pc = "balance" /\ tx'[receiptLock'[r]].cmd = "receipt"
    <3>1. receiptLock'[r] = receiptLock[r] /\ receiptLock[r] \in Workers \ {w}
      BY <1>2, <2>3 DEF TypeOK
    <3> QED
      BY <3>1, <2>3, <1>7 DEF LocksOwned
  <2> QED
    BY <2>1, <2>2, <2>3 DEF LocksOwned
<1>10. ASSUME NEW v \in Workers PROVE TxShape(v)'
  <2>1. CASE v = w
    BY <1>7, <2>1, StockAssumption DEF TxShape, Idle, Transitions
  <2>2. CASE v # w
    <3>1. tx'[v] = tx[v] /\ TxShape(v) /\ tx[v].done \subseteq Products
      BY <1>7, <2>2, TxTyped DEF Tx
    <3>2. \A p \in tx[v].done : BufferFresh(v, p)'
      <4> SUFFICES ASSUME NEW p \in tx[v].done PROVE BufferFresh(v, p)'
        OBVIOUS
      <4>1. BufferFresh(v, p) /\ p \in Products /\ balanceLock[p] = v
        BY <3>1 DEF TxShape, BufferFresh
      <4>2. p \notin t.done
        BY <4>1, <1>5, <2>2
      <4>3. balance'[p] = balance[p] /\ openAlerts'[p] = openAlerts[p]
            /\ balanceLock'[p] = balanceLock[p]
        BY <1>1, <1>2, <4>1, <4>2
      <4> QED
        BY <3>1, <4>1, <4>3 DEF BufferFresh
    <3>3. \A o \in Orders : orderLock[o] = v => orderLock'[o] = v
      BY <1>2, <2>2
    <3>4. \A o \in Orders : orderLock[o] # w => status'[o] = status[o] /\ lines'[o] = lines[o]
      BY <1>1, <1>6 DEF TypeOK
    <3>5. \A o \in Orders : status[o] # "NONE" => status'[o] # "NONE"
      BY <1>1, <1>6 DEF TypeOK, Transitions
    <3>6. ASSUME tx[v].cmd \in Transitions \cup {"edit"}, tx[v].pc \in {"lines", "ask", "balance"}
          PROVE  tx[v].order \in Orders /\ orderLock[tx[v].order] = v
      BY <3>1, <3>6 DEF TxShape
    <3> QED
      BY <3>1, <3>2, <3>3, <3>4, <3>5, <3>6, <2>2 DEF TxShape
  <2> QED
    BY <2>1, <2>2
<1>11. NeverOversold'
  <2> SUFFICES ASSUME NEW p \in Products
               PROVE  0 <= balance'[p].reserved /\ balance'[p].reserved <= balance'[p].onHand
    BY DEF NeverOversold
  <2>1. CASE p \in t.done
    BY <1>1, <1>5, <2>1
  <2>2. CASE p \notin t.done
    BY <1>1, <2>2 DEF CommittedOK, NeverOversold
  <2> QED
    BY <2>1, <2>2
<1>12. LedgerReplays'
  <2> SUFFICES ASSUME NEW p \in Products
               PROVE  /\ \A i \in 1 .. Len(ledger'[p]) :
                           ledger'[p][i].after =
                             (IF i = 1 THEN 0 ELSE ledger'[p][i - 1].after) + ledger'[p][i].delta
                      /\ balance'[p].onHand =
                           IF ledger'[p] = <<>> THEN 0 ELSE ledger'[p][Len(ledger'[p])].after
    BY DEF LedgerReplays
  <2>1. /\ \A i \in 1 .. Len(ledger[p]) :
             ledger[p][i].after =
               (IF i = 1 THEN 0 ELSE ledger[p][i - 1].after) + ledger[p][i].delta
        /\ balance[p].onHand =
             IF ledger[p] = <<>> THEN 0 ELSE ledger[p][Len(ledger[p])].after
    BY DEF CommittedOK, LedgerReplays
  <2>2. ledger[p] \in Seq(Move) /\ balance[p].onHand \in Int
    BY StockAssumption DEF TypeOK
  <2>3. CASE Moves(t, p)
    <3> DEFINE m == Movement(t, p)
    <3>1. p \in t.done /\ ledger'[p] = Append(ledger[p], m)
      BY <1>1, <2>3 DEF Moves
    <3>2. /\ m.delta = OnHandDelta(t.cmd, t.qty[p]) /\ m.after = t.row[p].onHand
          /\ balance'[p].onHand = m.after /\ m.after = balance[p].onHand + m.delta
      BY <1>1, <1>5, <3>1 DEF Movement
    <3> HIDE DEF m
    <3> QED
      BY <2>1, <2>2, <3>1, <3>2
  <2>4. CASE ~Moves(t, p)
    <3>1. balance'[p].onHand = balance[p].onHand /\ ledger'[p] = ledger[p]
      BY <1>1, <1>5, <2>2, <2>4 DEF Moves, OnHandDelta
    <3> QED
      BY <2>1, <3>1
  <2> QED
    BY <2>3, <2>4
<1>13. OneOpenAlert'
  BY <1>1, <1>5 DEF CommittedOK, OneOpenAlert, TypeOK
<1> QED
  BY <1>8, <1>9, <1>10, <1>11, <1>12, <1>13 DEF CommittedOK

\* Commands that lock nothing: a new draft, a product edit.
LEMMA UnlockedKeeps ==
  ASSUME IInv,
         \/ \E o \in Orders, ls \in LineSets : CreateDraft(o, ls)
         \/ \E p \in Products, point \in ReorderPoints, isActive \in BOOLEAN :
              UpdateProduct(p, point, isActive)
  PROVE  IInv'
<1> USE DEF IInv
<1>1. ASSUME NEW o \in Orders, NEW ls \in LineSets, CreateDraft(o, ls) PROVE IInv'
  <2>1. /\ status[o] = "NONE"
        /\ status' = [status EXCEPT ![o] = "DRAFT"] /\ lines' = [lines EXCEPT ![o] = ls]
        /\ UNCHANGED <<balance, rows, ledger, openAlerts, receipts, prodVars, lockVars, tx>>
    BY <1>1 DEF CreateDraft
  <2>2. TypeOK'
    BY <2>1, LinesTyped DEF TypeOK, Statuses, prodVars, lockVars
  <2>3. LocksOwned'
    BY <2>1 DEF LocksOwned, lockVars
  <2>4. ASSUME NEW v \in Workers PROVE TxShape(v)'
    <3>1. TxShape(v) /\ tx'[v] = tx[v]
      BY <2>1
    <3>2. \A x \in Orders : x # o => status'[x] = status[x] /\ lines'[x] = lines[x]
      BY <2>1 DEF TypeOK
    <3>3. tx[v].order \in Orders => tx[v].order # o
      BY <2>1, <3>1 DEF TxShape
    <3>4. status'[o] # "NONE"
      BY <2>1 DEF TypeOK
    <3>5. \A p \in tx[v].done : BufferFresh(v, p)'
      BY <2>1, <3>1 DEF TxShape, BufferFresh, lockVars
    <3>6. tx[v].cmd \in Transitions \cup {"edit"} /\ tx[v].pc \in {"lines", "ask", "balance"}
            => tx[v].order \in Orders
      BY <3>1 DEF TxShape
    <3> QED
      BY <2>1, <3>1, <3>2, <3>3, <3>4, <3>5, <3>6 DEF TxShape, lockVars
  <2>5. CommittedOK'
    BY <2>1 DEF CommittedOK, NeverOversold, LedgerReplays, OneOpenAlert
  <2> QED
    BY <2>2, <2>3, <2>4, <2>5
<1>2. ASSUME NEW p \in Products, NEW point \in ReorderPoints, NEW isActive \in BOOLEAN,
             UpdateProduct(p, point, isActive)
      PROVE  IInv'
  <2>1. UNCHANGED <<rowVars, lockVars, tx>>
    BY <1>2 DEF UpdateProduct
  <2>2. TypeOK'
    BY <1>2, StockAssumption DEF UpdateProduct, TypeOK, rowVars, lockVars
  <2>3. LocksOwned' /\ \A v \in Workers : TxShape(v)'
    BY <2>1 DEF LocksOwned, TxShape, BufferFresh, rowVars, lockVars
  <2>4. CommittedOK'
    BY <2>1 DEF CommittedOK, NeverOversold, LedgerReplays, OneOpenAlert, rowVars
  <2> QED
    BY <2>2, <2>3, <2>4
<1> QED
  BY <1>1, <1>2

\* Every step keeps the invariant.
LEMMA StepKeeps == IInv /\ [Next]_vars => IInv'
<1> SUFFICES ASSUME IInv, [Next]_vars PROVE IInv'
  OBVIOUS
<1>1. ASSUME NEW w \in Workers, Step(w) PROVE IInv'
  <2>1. CASE LockOrder(w)
    BY <2>1, LockOrderKeeps
  <2>2. CASE ReadLines(w)
    BY <2>2, ReadLinesKeeps
  <2>3. CASE ReplaceDraftLines(w)
    BY <2>3, ReplaceDraftLinesKeeps
  <2>4. CASE InsertReceipt(w)
    BY <2>4, InsertReceiptKeeps
  <2>5. ASSUME NEW p \in Products, AskBalance(w, p) \/ ProcessLine(w, p) PROVE IInv'
    BY <2>5, AskBalanceKeeps, ProcessLineKeeps
  <2>6. ASSUME RejectOrder(w) \/ RejectReceipt(w) \/ \E p \in Products : RejectLine(w, p)
        PROVE  IInv'
    BY <2>6, RollbackKeeps DEF RejectOrder, RejectReceipt, RejectLine
  <2>7. CASE Commit(w)
    BY <2>7, CommitKeeps
  <2> QED
    BY <1>1, <2>1, <2>2, <2>3, <2>4, <2>5, <2>6, <2>7 DEF Step
<1>2. ASSUME NEW w \in Workers, Crash(w) PROVE IInv'
  BY <1>2, RollbackKeeps DEF Crash
<1>3. CASE UNCHANGED vars
  BY <1>3 DEF vars, rowVars, prodVars, lockVars, IInv, TypeOK, LocksOwned, TxShape,
              BufferFresh, CommittedOK, NeverOversold, LedgerReplays, OneOpenAlert
<1> QED
  BY <1>1, <1>2, <1>3, RequestKeeps, UnlockedKeeps DEF Next

-----------------------------------------------------------------------------
(* Theorems.                                                                *)

\* The invariant holds throughout every behaviour.
THEOREM Invariance == Spec => []IInv
<1>1. Init => IInv
  BY InitEstablishes
<1>2. IInv /\ [Next]_vars => IInv'
  BY StepKeeps
<1> QED
  BY <1>1, <1>2, PTL DEF Spec

\* Committed rows and transactions have their types; no committed on-hand
\* quantity has left its column (every command, inventory-projection.ts).
THEOREM TypeCorrect == Spec => []TypeOK
<1>1. IInv => TypeOK
  BY DEF IInv
<1> QED
  BY <1>1, Invariance, PTL

\* Reserved stock stays within on-hand stock, whatever confirmations,
\* fulfilments, cancellations, receipts and adjustments run at once.
THEOREM Safety == Spec => []NeverOversold
<1>1. IInv => NeverOversold
  BY DEF IInv, CommittedOK
<1> QED
  BY <1>1, Invariance, PTL

\* The append-only ledger always replays to the on-hand column.
THEOREM LedgerConsistent == Spec => []LedgerReplays
<1>1. IInv => LedgerReplays
  BY DEF IInv, CommittedOK
<1> QED
  BY <1>1, Invariance, PTL

\* No command ever opens a second alert for a product.
THEOREM SingleAlert == Spec => []OneOpenAlert
<1>1. IInv => OneOpenAlert
  BY DEF IInv, CommittedOK
<1> QED
  BY <1>1, Invariance, PTL

\* Balance locks are only waited for upwards in product order and by
\* transactions whose other locks nobody ahead of them waits for: no deadlock.
THEOREM NoLockCycle == Spec => []WaitsUphill
<1>1. IInv => WaitsUphill
  <2> SUFFICES ASSUME IInv PROVE WaitsUphill
    OBVIOUS
  <2>1. ASSUME NEW w \in Workers, NEW v \in Workers, NEW p \in Products, NEW q \in Products,
               Waiting(w, p), balanceLock[p] = v, Waiting(v, q)
        PROVE  p < q
    <3>1. p \in tx[v].done
      BY <2>1, StockAssumption DEF IInv, LocksOwned
    <3>2. q \in tx[v].todo
      BY <2>1 DEF Waiting, NextProduct
    <3> QED
      BY <3>1, <3>2 DEF IInv, TxShape
  <2>2. ASSUME NEW w \in Workers, tx[w].pc \in {"order", "receipt"}
        PROVE  /\ \A p \in Products : balanceLock[p] # w
               /\ \A o \in Orders : orderLock[o] # w
               /\ \A r \in Receipts : receiptLock[r] # w
    BY <2>2, IdleHoldsNothing
  <2> QED
    BY <2>1, <2>2 DEF WaitsUphill
<1> QED
  BY <1>1, Invariance, PTL

\* Only commits and new drafts write committed rows.
LEMMA RowWriters ==
  ASSUME [Next]_vars
  PROVE  \/ UNCHANGED rowVars
         \/ \E w \in Workers : Commit(w)
         \/ \E o \in Orders, ls \in LineSets : CreateDraft(o, ls)
<1>1. ASSUME NEW w \in Workers, Request(w) PROVE UNCHANGED rowVars
  BY <1>1 DEF Request, RequestTransition, RequestEdit, RequestReceipt,
              RequestAdjustment, RequestReconcile
<1>2. ASSUME NEW w \in Workers, Step(w), ~Commit(w) PROVE UNCHANGED rowVars
  BY <1>2 DEF Step, LockOrder, ReadLines, ReplaceDraftLines, InsertReceipt, AskBalance,
              ProcessLine, RejectLine, RejectOrder, RejectReceipt, Rollback
<1>3. ASSUME NEW w \in Workers, Crash(w) PROVE UNCHANGED rowVars
  BY <1>3 DEF Crash, Rollback
<1>4. ASSUME NEW p \in Products, NEW point \in ReorderPoints, NEW isActive \in BOOLEAN,
             UpdateProduct(p, point, isActive)
      PROVE  UNCHANGED rowVars
  BY <1>4 DEF UpdateProduct
<1>5. UNCHANGED vars => UNCHANGED rowVars
  BY DEF vars
<1> QED
  BY <1>1, <1>2, <1>3, <1>4, <1>5 DEF Next

\* Orders only move along the state machine and only a draft's lines change.
THEOREM OrdersKeepHistory == Spec => OrderHistory
<1> DEFINE Good ==
      \A o \in Orders :
        /\ status'[o] # status[o] =>
             \/ status[o] = "NONE" /\ status'[o] = "DRAFT"
             \/ CanTransition(status[o], status'[o])
        /\ lines'[o] # lines[o] =>
             status[o] \in {"NONE", "DRAFT"} /\ status'[o] = "DRAFT"
<1>1. IInv /\ [Next]_vars => [Good]_<<status, lines>>
  <2> SUFFICES ASSUME IInv, [Next]_vars, ~UNCHANGED <<status, lines>>
               PROVE  Good
    OBVIOUS
  <2>1. (\E w \in Workers : Commit(w)) \/ (\E o \in Orders, ls \in LineSets : CreateDraft(o, ls))
    BY RowWriters DEF rowVars
  <2>2. ASSUME NEW w \in Workers, Commit(w) PROVE Good
    <3>1. TxShape(w)
      BY DEF IInv
    <3>2. CASE tx[w].cmd \in Transitions
      <4>1. /\ status' = [status EXCEPT ![tx[w].order] = tx[w].cmd] /\ lines' = lines
            /\ tx[w].order \in Orders /\ CanTransition(status[tx[w].order], tx[w].cmd)
        BY <2>2, <3>1, <3>2 DEF Commit, TxShape, Transitions
      <4> QED
        BY <4>1 DEF IInv, TypeOK
    <3>3. CASE tx[w].cmd = "edit"
      <4>1. /\ status' = status /\ lines' = [lines EXCEPT ![tx[w].order] = tx[w].qty]
            /\ tx[w].order \in Orders /\ status[tx[w].order] = "DRAFT"
        BY <2>2, <3>1, <3>3 DEF Commit, TxShape, Transitions
      <4> QED
        BY <4>1 DEF IInv, TypeOK
    <3>4. CASE tx[w].cmd \notin Transitions \cup {"edit"}
      BY <2>2, <3>4 DEF Commit
    <3> QED
      BY <3>2, <3>3, <3>4
  <2>3. ASSUME NEW o \in Orders, NEW ls \in LineSets, CreateDraft(o, ls) PROVE Good
    BY <2>3 DEF CreateDraft, IInv, TypeOK
  <2> QED
    BY <2>1, <2>2, <2>3
<1> QED
  BY <1>1, Invariance, PTL DEF OrderHistory, Spec

-----------------------------------------------------------------------------
(* StockOrders implements StockPromise.                                     *)

\* The lines that a command on balances has locked or is still to lock.
Touched(t) == t.todo \cup t.done
Positive(qty) == {p \in Products : qty[p] > 0}

\* A command at work covers all of its lines, and a receipt its number.
CommandCovered(w) ==
  LET t == tx[w] IN
  /\ t.cmd \in {"edit", "receipt"} => t.qty \in LineSets
  /\ t.cmd \in Transitions /\ t.pc \in {"ask", "balance"} =>
       Touched(t) = IF t.found = "DRAFT" /\ t.cmd = "CANCELLED" THEN {} ELSE Positive(t.qty)
  /\ t.cmd = "receipt" /\ t.pc = "balance" =>
       Touched(t) = Positive(t.qty) /\ receiptLock[t.receipt] = w /\ t.receipt \notin receipts
  /\ t.cmd = "adjust" =>
       \E p \in Products, q \in Quantities : Touched(t) = {p} /\ t.qty[p] \in {q, -q}

AllCovered == \A w \in Workers : CommandCovered(w)

\* What a step leaves to the commands of other workers.
LEMMA OthersCovered ==
  ASSUME IInv, AllCovered, NEW w \in Workers, CommandCovered(w)',
         \A v \in Workers \ {w} : tx'[v] = tx[v],
         \A v \in Workers \ {w}, r \in Receipts :
           receiptLock[r] = v => receiptLock'[r] = v /\ (r \in receipts' => r \in receipts)
  PROVE  AllCovered'
<1>1. ASSUME NEW v \in Workers, v # w PROVE CommandCovered(v)'
  <2>1. CommandCovered(v) /\ tx'[v] = tx[v]
    BY <1>1 DEF AllCovered
  <2>2. tx[v].cmd = "receipt" => tx[v].receipt \in Receipts
    BY DEF IInv, TxShape
  <2> QED
    BY <1>1, <2>1, <2>2 DEF CommandCovered, Touched, Positive
<1> QED
  BY <1>1 DEF AllCovered

\* A command that has ended covers nothing.
LEMMA ReleaseCovers ==
  ASSUME IInv, AllCovered, NEW w \in Workers, Release(w),
         \A v \in Workers \ {w}, r \in Receipts :
           receiptLock[r] = v => (r \in receipts' => r \in receipts)
  PROVE  AllCovered'
<1>1. tx' = [tx EXCEPT ![w] = Idle] /\ tx \in [Workers -> Tx]
  BY DEF Release, IInv, TypeOK
<1>2. CommandCovered(w)'
  BY <1>1 DEF CommandCovered, Idle, Transitions
<1>3. \A v \in Workers \ {w}, r \in Receipts : receiptLock[r] = v => receiptLock'[r] = v
  BY DEF Release
<1> QED
  BY <1>1, <1>2, <1>3, OthersCovered

\* A command that begins covers nothing yet, or the one product it adjusts.
LEMMA RequestCovers ==
  ASSUME IInv, AllCovered, NEW w \in Workers, Request(w)
  PROVE  AllCovered'
<1>1. tx \in [Workers -> Tx]
  BY DEF IInv, TypeOK
<1>2. UNCHANGED <<receiptLock, receipts>>
  BY DEF Request, RequestTransition, RequestEdit, RequestReceipt, RequestAdjustment,
     RequestReconcile, rowVars, lockVars
<1>3. ASSUME NEW t, tx' = [tx EXCEPT ![w] = t],
             t.pc \in {"order", "receipt"} \/ t.cmd \in {"reconcile", "adjust"},
             t.cmd \in {"edit", "receipt"} => t.qty \in LineSets,
             t.cmd = "adjust" =>
               \E p \in Products, q \in Quantities : Touched(t) = {p} /\ t.qty[p] \in {q, -q}
      PROVE  AllCovered'
  <2>1. tx'[w] = t /\ \A v \in Workers \ {w} : tx'[v] = tx[v]
    BY <1>1, <1>3
  <2>2. CommandCovered(w)'
    BY <1>3, <2>1 DEF CommandCovered, Transitions, Touched
  <2> QED
    BY <1>2, <2>1, <2>2, OthersCovered
<1>4. ASSUME NEW o \in Orders, NEW to \in Transitions, RequestTransition(w, o, to)
      PROVE  AllCovered'
  <2> DEFINE t == [Idle EXCEPT !.pc = "order", !.cmd = to, !.order = o]
  <2>1. tx' = [tx EXCEPT ![w] = t]
    BY <1>4 DEF RequestTransition, Begin
  <2>2. t.pc = "order" /\ t.cmd = to
    BY DEF Idle
  <2> HIDE DEF t
  <2> QED
    BY <1>3, <2>1, <2>2 DEF Transitions
<1>5. ASSUME NEW o \in Orders, NEW ls \in LineSets, RequestEdit(w, o, ls) PROVE AllCovered'
  <2> DEFINE t == [Idle EXCEPT !.pc = "order", !.cmd = "edit", !.order = o, !.qty = ls]
  <2>1. tx' = [tx EXCEPT ![w] = t]
    BY <1>5 DEF RequestEdit, Begin
  <2>2. t.pc = "order" /\ t.cmd = "edit" /\ t.qty = ls
    BY DEF Idle
  <2> HIDE DEF t
  <2> QED
    BY <1>3, <2>1, <2>2
<1>6. ASSUME NEW r \in Receipts, NEW ls \in LineSets, RequestReceipt(w, r, ls) PROVE AllCovered'
  <2> DEFINE t == [Idle EXCEPT !.pc = "receipt", !.cmd = "receipt", !.receipt = r,
                               !.qty = ls, !.point = reorder]
  <2>1. tx' = [tx EXCEPT ![w] = t]
    BY <1>6 DEF RequestReceipt, Begin
  <2>2. t.pc = "receipt" /\ t.cmd = "receipt" /\ t.qty = ls
    BY DEF Idle
  <2> HIDE DEF t
  <2> QED
    BY <1>3, <2>1, <2>2
<1>7. ASSUME NEW p \in Products, NEW q \in Quantities, NEW d \in {q, -q},
             RequestAdjustment(w, p, d)
      PROVE  AllCovered'
  <2> DEFINE t == [Idle EXCEPT !.pc = "balance", !.cmd = "adjust", !.todo = {p},
                               !.qty[p] = d, !.point = reorder]
  <2>1. tx' = [tx EXCEPT ![w] = t]
    BY <1>7 DEF RequestAdjustment, Begin
  <2>2. t.cmd = "adjust" /\ t.todo = {p} /\ t.done = {} /\ t.qty[p] = d
    BY DEF Idle, NoLines
  <2> HIDE DEF t
  <2>3. Touched(t) = {p}
    BY <2>2 DEF Touched
  <2> QED
    BY <1>3, <2>1, <2>2, <2>3
<1>8. ASSUME RequestReconcile(w) PROVE AllCovered'
  <2> DEFINE t == [Idle EXCEPT !.pc = "balance", !.cmd = "reconcile", !.todo = rows,
                               !.point = reorder]
  <2>1. tx' = [tx EXCEPT ![w] = t]
    BY <1>8 DEF RequestReconcile, Begin
  <2>2. t.cmd = "reconcile"
    BY DEF Idle
  <2> HIDE DEF t
  <2> QED
    BY <1>3, <2>1, <2>2
<1> QED
  BY <1>4, <1>5, <1>6, <1>7, <1>8 DEF Request

\* Steps on the way: a balance that is locked goes from "todo" to "done".
LEMMA WorkCovers ==
  ASSUME IInv, AllCovered, NEW w \in Workers, NEW p \in Products,
         AskBalance(w, p) \/ ProcessLine(w, p)
  PROVE  AllCovered'
<1>1. tx \in [Workers -> Tx] /\ tx[w] \in Tx /\ CommandCovered(w) /\ TxShape(w) /\ p \in tx[w].todo
  BY DEF IInv, TypeOK, AllCovered, AskBalance, ProcessLine, NextProduct
<1>2. UNCHANGED <<receiptLock, receipts>> /\ \A v \in Workers \ {w} : tx'[v] = tx[v]
  BY <1>1 DEF AskBalance, ProcessLine, rowVars, lockVars
<1>3. /\ tx'[w].cmd = tx[w].cmd /\ tx'[w].qty = tx[w].qty /\ tx'[w].found = tx[w].found
      /\ tx'[w].receipt = tx[w].receipt /\ Touched(tx'[w]) = Touched(tx[w])
      /\ tx[w].pc \in {"ask", "balance"}
      /\ tx[w].pc = "ask" => tx[w].cmd \in Transitions
  <2>1. CASE AskBalance(w, p)
    <3> DEFINE t == [tx[w] EXCEPT !.pc = "balance", !.point[p] = reorder[p]]
    <3>1. tx'[w] = t
      BY <1>1, <2>1 DEF AskBalance
    <3>2. /\ t.cmd = tx[w].cmd /\ t.qty = tx[w].qty /\ t.found = tx[w].found
          /\ t.receipt = tx[w].receipt /\ t.todo = tx[w].todo /\ t.done = tx[w].done
      BY <1>1 DEF Tx
    <3> HIDE DEF t
    <3> QED
      BY <1>1, <2>1, <3>1, <3>2 DEF Touched, AskBalance, TxShape
  <2>2. CASE ProcessLine(w, p)
    <3>1. PICK pc, row :
            tx'[w] = [tx[w] EXCEPT !.pc = pc, !.todo = @ \ {p}, !.done = @ \cup {p}, !.row[p] = row]
      BY <1>1, <2>2 DEF ProcessLine
    <3>2. /\ tx'[w].cmd = tx[w].cmd /\ tx'[w].qty = tx[w].qty /\ tx'[w].found = tx[w].found
          /\ tx'[w].receipt = tx[w].receipt
          /\ tx'[w].todo = tx[w].todo \ {p} /\ tx'[w].done = tx[w].done \cup {p}
      BY <1>1, <3>1 DEF Tx
    <3> QED
      BY <1>1, <2>2, <3>2 DEF Touched, ProcessLine
  <2> QED
    BY <2>1, <2>2
<1>4. CommandCovered(w)'
  BY <1>1, <1>2, <1>3 DEF CommandCovered, Transitions, Positive
<1> QED
  BY <1>2, <1>4, OthersCovered

\* Steps under the order lock, before any balance, and the insert of a receipt.
LEMMA PrepareCovers ==
  ASSUME IInv, AllCovered, NEW w \in Workers,
         LockOrder(w) \/ ReadLines(w) \/ ReplaceDraftLines(w) \/ InsertReceipt(w)
  PROVE  AllCovered'
<1>1. tx \in [Workers -> Tx] /\ tx[w] \in Tx /\ CommandCovered(w) /\ TxShape(w)
  BY DEF IInv, TypeOK, AllCovered
<1>2. /\ \A v \in Workers \ {w} : tx'[v] = tx[v]
      /\ receipts' = receipts
      /\ \A v \in Workers \ {w}, r \in Receipts : receiptLock[r] = v => receiptLock'[r] = v
  BY <1>1, StockAssumption DEF LockOrder, ReadLines, ReplaceDraftLines, InsertReceipt, rowVars,
     lockVars, IInv, TypeOK
<1>3. CommandCovered(w)'
  <2>1. CASE LockOrder(w)
    <3> DEFINE t == [tx[w] EXCEPT !.pc = "lines", !.found = status[tx[w].order]]
    <3>1. tx'[w] = t
      BY <1>1, <2>1 DEF LockOrder
    <3>2. t.pc = "lines" /\ t.cmd = tx[w].cmd /\ t.qty = tx[w].qty
      BY <1>1 DEF Tx
    <3>3. t.cmd \in Transitions \cup {"edit"}
      BY <1>1, <2>1, <3>2 DEF TxShape, LockOrder
    <3> HIDE DEF t
    <3> QED
      BY <1>1, <3>1, <3>2, <3>3 DEF CommandCovered, Transitions
  <2>2. CASE ReadLines(w)
    <3> DEFINE qty == lines[tx[w].order]
               todo == IF tx[w].found = "DRAFT" /\ tx[w].cmd = "CANCELLED" THEN {}
                       ELSE {p \in Products : qty[p] > 0}
    <3>1. tx'[w] = [tx[w] EXCEPT !.pc = "ask", !.qty = qty, !.todo = todo]
      BY <1>1, <2>2 DEF ReadLines
    <3>2. tx[w].done = {} /\ tx[w].cmd \in Transitions
      BY <1>1, <2>2 DEF ReadLines, TxShape
    <3> HIDE DEF qty, todo
    <3>3. /\ tx'[w].cmd = tx[w].cmd /\ tx'[w].found = tx[w].found /\ tx'[w].qty = qty
          /\ tx'[w].todo = todo /\ tx'[w].done = tx[w].done
      BY <1>1, <3>1 DEF Tx
    <3> QED
      BY <3>2, <3>3 DEF CommandCovered, Touched, Positive, Transitions, todo
  <2>3. CASE ReplaceDraftLines(w)
    <3>1. tx'[w] = [tx[w] EXCEPT !.pc = "ask"] /\ tx[w].cmd = "edit"
      BY <1>1, <2>3 DEF ReplaceDraftLines
    <3>2. tx'[w].cmd = "edit" /\ tx'[w].qty = tx[w].qty
      BY <1>1, <3>1 DEF Tx
    <3> QED
      BY <1>1, <3>1, <3>2 DEF CommandCovered, Transitions
  <2>4. CASE InsertReceipt(w)
    <3> DEFINE todo == {p \in Products : tx[w].qty[p] > 0}
    <3>1. tx'[w] = [tx[w] EXCEPT !.pc = "balance", !.todo = todo]
      BY <1>1, <2>4 DEF InsertReceipt
    <3>2. /\ tx[w].cmd = "receipt" /\ tx[w].done = {} /\ tx[w].receipt \in Receipts
          /\ tx[w].receipt \notin receipts
      BY <1>1, <2>4 DEF InsertReceipt, TxShape
    <3> HIDE DEF todo
    <3>3. /\ tx'[w].cmd = "receipt" /\ tx'[w].qty = tx[w].qty /\ tx'[w].todo = todo
          /\ tx'[w].done = {} /\ tx'[w].receipt = tx[w].receipt
      BY <1>1, <3>1, <3>2 DEF Tx
    <3>4. receiptLock'[tx[w].receipt] = w /\ receipts' = receipts
      BY <1>2, <2>4, <3>2 DEF InsertReceipt, IInv, TypeOK
    <3> QED
      BY <1>1, <3>2, <3>3, <3>4 DEF CommandCovered, Touched, Positive, Transitions, todo
  <2> QED
    BY <2>1, <2>2, <2>3, <2>4
<1> QED
  BY <1>2, <1>3, OthersCovered

\* Every step keeps the commands covered.
LEMMA CoveredKept == IInv /\ AllCovered /\ [Next]_vars => AllCovered'
<1> SUFFICES ASSUME IInv, AllCovered, [Next]_vars PROVE AllCovered'
  OBVIOUS
<1>1. ASSUME NEW w \in Workers, Step(w) \/ Crash(w) PROVE AllCovered'
  <2>1. ASSUME Rollback(w) PROVE AllCovered'
    BY <2>1, ReleaseCovers DEF Rollback, rowVars
  <2>2. ASSUME Commit(w) PROVE AllCovered'
    <3>1. ASSUME NEW v \in Workers \ {w}, NEW r \in Receipts, receiptLock[r] = v, r \in receipts'
          PROVE  r \in receipts
      <4>1. TxShape(w) /\ CommandCovered(w)
        BY DEF IInv, AllCovered
      <4>2. tx[w].cmd = "receipt" => tx[w].pc = "balance"
        BY <2>2, <4>1 DEF Commit, TxShape, Transitions
      <4> QED
        BY <2>2, <3>1, <4>1, <4>2 DEF Commit, CommandCovered
    <3> QED
      BY <2>2, <3>1, ReleaseCovers DEF Commit
  <2> QED
    BY <1>1, <2>1, <2>2, PrepareCovers, WorkCovers
    DEF Step, Crash, RejectLine, RejectOrder, RejectReceipt
<1>2. CASE UNCHANGED <<tx, receiptLock, receipts>>
  BY <1>2 DEF AllCovered, CommandCovered
<1>3. (\E o \in Orders, ls \in LineSets : CreateDraft(o, ls)) => UNCHANGED <<tx, receiptLock, receipts>>
  BY DEF CreateDraft, lockVars
<1>4. (\E p \in Products, point \in ReorderPoints, isActive \in BOOLEAN :
         UpdateProduct(p, point, isActive)) => UNCHANGED <<tx, receiptLock, receipts>>
  BY DEF UpdateProduct, lockVars, rowVars
<1>5. UNCHANGED vars => UNCHANGED <<tx, receiptLock, receipts>>
  BY DEF vars, lockVars, rowVars
<1> QED
  BY <1>1, <1>2, <1>3, <1>4, <1>5, RequestCovers DEF Next

-----------------------------------------------------------------------------
\* What a commit adds to the two columns of a balance.
OnHandAdded(t, p) == IF p \in t.done THEN OnHandDelta(t.cmd, t.qty[p]) ELSE 0
ReservedAdded(t, p) == IF p \in t.done THEN ReservedDelta(t.cmd, t.qty[p]) ELSE 0

\* A commit adds the deltas of its lines to the rows as they are when it commits.
LEMMA CommitAdds ==
  ASSUME IInv, NEW w \in Workers, Commit(w), NEW p \in Products
  PROVE  /\ balance'[p].onHand = balance[p].onHand + OnHandAdded(tx[w], p)
         /\ balance'[p].reserved = balance[p].reserved + ReservedAdded(tx[w], p)
         /\ balance[p].onHand \in Nat /\ balance[p].reserved \in Nat
         /\ p \in tx[w].done =>
              IsProjection(balance'[p]) /\ balance'[p].onHand <= MaxOnHand
<1>1. /\ balance[p].onHand \in 0 .. MaxOnHand /\ balance[p].reserved \in Nat
  BY DEF IInv, TypeOK
<1>2. CASE p \in tx[w].done
  <2>1. BufferFresh(w, p)
    BY <1>2 DEF IInv, TxShape
  <2>2. balance'[p] = [onHand |-> tx[w].row[p].onHand, reserved |-> tx[w].row[p].reserved]
    BY <1>2 DEF Commit
  <2>3. balance'[p].onHand = tx[w].row[p].onHand /\ balance'[p].reserved = tx[w].row[p].reserved
    BY <2>2
  <2> QED
    BY <1>1, <1>2, <2>1, <2>3, StockAssumption
    DEF BufferFresh, OnHandAdded, ReservedAdded, IsProjection
<1>3. CASE p \notin tx[w].done
  <2>1. balance'[p] = balance[p]
    BY <1>3 DEF Commit
  <2> QED
    BY <1>1, <1>3, <2>1, StockAssumption DEF OnHandAdded, ReservedAdded
<1> QED
  BY <1>2, <1>3

-----------------------------------------------------------------------------
\* The refinement mapping of StockOrders!Promise.
onHand   == [p \in Products |-> balance[p].onHand]
reserved == [p \in Products |-> balance[p].reserved]

\* Each command, at its commit, is the step of the promise of the same name.
LEMMA CommitPromised ==
  ASSUME IInv, AllCovered, NEW w \in Workers, Commit(w)
  PROVE  [Promise!Next]_(Promise!vars)
<1> DEFINE t == tx[w]
<1>1. /\ TxShape(w) /\ CommandCovered(w) /\ t \in Tx /\ t.todo = {} /\ t.done \subseteq Products
      /\ t.pc \in {"ask", "balance"} /\ Touched(t) = t.done /\ t.qty \in [Products -> Int]
  BY DEF IInv, TypeOK, AllCovered, Commit, Touched, Tx
<1>2. /\ onHand \in [Products -> Nat] /\ reserved \in [Products -> Nat]
      /\ onHand' = [p \in Products |-> onHand[p] + OnHandAdded(t, p)]
      /\ reserved' = [p \in Products |-> reserved[p] + ReservedAdded(t, p)]
      /\ \A p \in t.done : 0 <= reserved'[p] /\ reserved'[p] <= onHand'[p] /\ onHand'[p] <= MaxOnHand
  BY <1>1, CommitAdds DEF onHand, reserved, IsProjection
<1>3. /\ status' = IF t.cmd \in Transitions THEN [status EXCEPT ![t.order] = t.cmd] ELSE status
      /\ lines' = IF t.cmd = "edit" THEN [lines EXCEPT ![t.order] = t.qty] ELSE lines
      /\ receipts' = IF t.cmd = "receipt" THEN receipts \cup {t.receipt} ELSE receipts
  BY DEF Commit
<1>4. t.cmd \in Commands /\ status \in [Orders -> Statuses] /\ lines \in [Orders -> [Products -> Nat]]
  BY <1>1 DEF Tx, IInv, TypeOK
<1> HIDE DEF t
<1>5. CASE t.cmd \in Transitions
  <2>1. PICK o \in Orders :
          /\ o = t.order /\ status[o] = t.found /\ CanTransition(t.found, t.cmd)
          /\ t.qty = lines[o] /\ lines[o] \in [Products -> Nat]
          /\ t.done = IF t.found = "DRAFT" /\ t.cmd = "CANCELLED" THEN {} ELSE Positive(t.qty)
    BY <1>1, <1>4, <1>5 DEF TxShape, CommandCovered, t
  <2>2. status' = [status EXCEPT ![o] = t.cmd] /\ UNCHANGED <<lines, receipts>>
    BY <1>3, <1>5, <2>1 DEF Transitions
  <2>3. CASE t.cmd = "CONFIRMED"
    <3>1. status[o] = "DRAFT"
      BY <2>1, <2>3 DEF CanTransition
    <3>2. \A p \in Products : OnHandAdded(t, p) = 0 /\ ReservedAdded(t, p) = lines[o][p]
      BY <2>1, <2>3 DEF OnHandAdded, ReservedAdded, OnHandDelta, ReservedDelta, Positive
    <3>3. onHand' = onHand
      BY <1>2, <3>2
    <3>4. reserved' = [p \in Products |-> reserved[p] + lines[o][p]]
      BY <1>2, <3>2
    <3>5. ASSUME NEW p \in Products, lines[o][p] > 0 PROVE lines[o][p] <= onHand[p] - reserved[p]
      <4>1. p \in t.done
        BY <2>1, <2>3, <3>5 DEF Positive
      <4>2. /\ onHand'[p] = onHand[p] /\ reserved'[p] = reserved[p] + lines[o][p]
            /\ onHand[p] \in Nat /\ reserved[p] \in Nat /\ lines[o][p] \in Nat
        BY <1>2, <2>1, <3>3, <3>4
      <4>3. reserved'[p] <= onHand'[p]
        BY <1>2, <4>1
      <4> QED
        BY <4>2, <4>3
    <3>6. Promise!Confirm(o)
      BY <2>2, <2>3, <3>1, <3>3, <3>4, <3>5
      DEF Promise!Confirm, Promise!Plus, Promise!Move, onHand, reserved
    <3> QED
      BY <2>1, <3>6 DEF Promise!Next
  <2>4. CASE t.cmd = "FULFILLED"
    <3>1. status[o] = "CONFIRMED"
      BY <2>1, <2>4 DEF CanTransition
    <3>2. \A p \in Products : OnHandAdded(t, p) = -lines[o][p] /\ ReservedAdded(t, p) = -lines[o][p]
      BY <2>1, <2>4 DEF OnHandAdded, ReservedAdded, OnHandDelta, ReservedDelta, Positive
    <3>3. onHand' = [p \in Products |-> onHand[p] - lines[o][p]]
      BY <1>2, <2>1, <3>2
    <3>4. reserved' = [p \in Products |-> reserved[p] - lines[o][p]]
      BY <1>2, <2>1, <3>2
    <3>5. Promise!Fulfill(o)
      BY <2>2, <2>4, <3>1, <3>3, <3>4
      DEF Promise!Fulfill, Promise!Minus, Promise!Move, onHand, reserved
    <3> QED
      BY <2>1, <3>5 DEF Promise!Next
  <2>5. CASE t.cmd = "CANCELLED"
    <3>1. status[o] \in {"DRAFT", "CONFIRMED"}
      BY <2>1, <2>5 DEF CanTransition
    <3>2. \A p \in Products :
            /\ OnHandAdded(t, p) = 0
            /\ ReservedAdded(t, p) = IF status[o] = "CONFIRMED" THEN -lines[o][p] ELSE 0
      BY <2>1, <2>5, <3>1 DEF OnHandAdded, ReservedAdded, OnHandDelta, ReservedDelta, Positive
    <3>3. onHand' = onHand
      BY <1>2, <3>2
    <3>4. reserved' = IF status[o] = "CONFIRMED"
                        THEN [p \in Products |-> reserved[p] - lines[o][p]] ELSE reserved
      <4>1. CASE status[o] = "CONFIRMED"
        BY <1>2, <2>1, <3>2, <4>1
      <4>2. CASE status[o] # "CONFIRMED"
        BY <1>2, <3>2, <4>2
      <4> QED
        BY <4>1, <4>2
    <3>5. Promise!Cancel(o)
      BY <2>2, <2>5, <3>1, <3>3, <3>4
      DEF Promise!Cancel, Promise!Minus, Promise!Move, onHand, reserved
    <3> QED
      BY <2>1, <3>5 DEF Promise!Next
  <2> QED
    BY <1>5, <2>3, <2>4, <2>5 DEF Transitions
<1>6. CASE t.cmd = "edit"
  <2>1. PICK o \in Orders, ls \in LineSets :
          o = t.order /\ status[o] = "DRAFT" /\ ls = t.qty /\ t.done = {}
    BY <1>1, <1>6 DEF TxShape, CommandCovered, Transitions, t
  <2>2. /\ status' = status /\ lines' = [lines EXCEPT ![o] = ls] /\ receipts' = receipts
        /\ status = [status EXCEPT ![o] = "DRAFT"]
    BY <1>3, <1>4, <1>6, <2>1 DEF Transitions
  <2>3. onHand' = onHand /\ reserved' = reserved
    BY <1>2, <2>1 DEF OnHandAdded, ReservedAdded
  <2>4. Promise!Draft(o, ls)
    BY <2>1, <2>2, <2>3 DEF Promise!Draft, onHand, reserved
  <2>5. ls \in Promise!LineSets
    BY <2>1 DEF Promise!LineSets, LineSets
  <2> QED
    BY <2>1, <2>4, <2>5 DEF Promise!Next
<1>7. CASE t.cmd = "receipt"
  <2>1. PICK r \in Receipts, ls \in LineSets :
          r = t.receipt /\ ls = t.qty /\ t.done = Positive(ls) /\ r \notin receipts
    BY <1>1, <1>7 DEF TxShape, CommandCovered, Transitions, t
  <2>2. ls \in [Products -> Nat]
    BY <2>1, LinesTyped
  <2>3. /\ UNCHANGED <<status, lines>> /\ receipts' = receipts \cup {r}
    BY <1>3, <1>7, <2>1 DEF Transitions
  <2>4. \A p \in Products : OnHandAdded(t, p) = ls[p] /\ ReservedAdded(t, p) = 0
    BY <1>7, <2>1, <2>2 DEF OnHandAdded, ReservedAdded, OnHandDelta, ReservedDelta, Positive
  <2>5. onHand' = [p \in Products |-> onHand[p] + ls[p]] /\ reserved' = reserved
    BY <1>2, <2>4
  <2>6. \A p \in Products : onHand'[p] <= MaxOnHand
    <3>1. \A p \in Products : onHand[p] <= MaxOnHand
      BY DEF IInv, TypeOK, onHand
    <3> QED
      BY <1>2, <2>1, <2>2, <2>5, <3>1 DEF Positive
  <2>7. Promise!Receive(r, ls)
    BY <2>1, <2>3, <2>5, <2>6 DEF Promise!Receive, Promise!Plus, onHand, reserved
  <2>8. ls \in Promise!LineSets
    BY <2>1 DEF Promise!LineSets, LineSets
  <2> QED
    BY <2>1, <2>7, <2>8 DEF Promise!Next
<1>8. CASE t.cmd = "adjust"
  <2>1. PICK p \in Products, q \in Quantities, d \in Int :
          t.done = {p} /\ t.qty[p] = d /\ d \in {q, -q}
    BY <1>1, <1>8, StockAssumption DEF CommandCovered, t
  <2>2. UNCHANGED <<status, lines, receipts>>
    BY <1>3, <1>8 DEF Transitions
  <2>3. \A r \in Products : /\ OnHandAdded(t, r) = IF r = p THEN d ELSE 0
                            /\ ReservedAdded(t, r) = 0
    BY <1>8, <2>1 DEF OnHandAdded, ReservedAdded, OnHandDelta, ReservedDelta
  <2>4. onHand' = [onHand EXCEPT ![p] = onHand[p] + d] /\ reserved' = reserved
    <3>1. reserved' = reserved
      BY <1>2, <2>3
    <3>2. \A r \in Products : onHand'[r] = IF r = p THEN onHand[r] + d ELSE onHand[r]
      BY <1>2, <2>3
    <3>3. onHand' \in [Products -> Int]
      BY <1>2, <2>1, <2>3
    <3> QED
      BY <1>2, <3>1, <3>2, <3>3
  <2>5. reserved[p] <= onHand[p] + d /\ onHand[p] + d <= MaxOnHand
    BY <1>1, <1>2, <2>1, <2>4
  <2>6. Promise!Adjust(p, d)
    BY <2>2, <2>4, <2>5 DEF Promise!Adjust, onHand, reserved
  <2> QED
    BY <2>1, <2>6 DEF Promise!Next
<1>9. CASE t.cmd \in {"none", "reconcile"}
  <2>1. \A p \in Products : OnHandAdded(t, p) = 0 /\ ReservedAdded(t, p) = 0
    BY <1>9 DEF OnHandAdded, ReservedAdded, OnHandDelta, ReservedDelta
  <2>2. onHand' = onHand /\ reserved' = reserved
    BY <1>2, <2>1
  <2>3. UNCHANGED <<status, lines, receipts>>
    BY <1>3, <1>9 DEF Transitions
  <2> QED
    BY <2>2, <2>3 DEF Promise!vars, onHand, reserved
<1> QED
  BY <1>4, <1>5, <1>6, <1>7, <1>8, <1>9 DEF Commands

\* Whatever the transactions interleave, the committed rows change as if each
\* command were atomic.
THEOREM AtomicCommands == Spec => PromiseKept
<1>1. Init => AllCovered /\ Promise!Init
  <2> SUFFICES ASSUME Init PROVE AllCovered /\ Promise!Init
    OBVIOUS
  <2>1. AllCovered
    BY DEF Init, AllCovered, CommandCovered, Idle, Transitions
  <2>2. onHand = OpeningStock /\ reserved = [p \in Products |-> 0]
    BY StockAssumption DEF Init, onHand, reserved
  <2> QED
    BY <2>1, <2>2 DEF Init, Promise!Init, NoLines, onHand, reserved
<1>2. IInv /\ AllCovered /\ [Next]_vars => [Promise!Next]_(Promise!vars)
  <2> SUFFICES ASSUME IInv, AllCovered, [Next]_vars PROVE [Promise!Next]_(Promise!vars)
    OBVIOUS
  <2>1. ASSUME NEW o \in Orders, NEW ls \in LineSets, CreateDraft(o, ls) PROVE Promise!Next
    <3>1. Promise!Draft(o, ls) /\ ls \in Promise!LineSets
      BY <2>1 DEF CreateDraft, Promise!Draft, Promise!LineSets, LineSets
    <3> QED
      BY <3>1 DEF Promise!Next
  <2>2. CASE UNCHANGED rowVars
    BY <2>2 DEF rowVars, Promise!vars
  <2> QED
    BY <2>1, <2>2, CommitPromised, RowWriters
<1> QED
  BY <1>1, <1>2, CoveredKept, Invariance, PTL DEF Spec, PromiseKept, Promise!Spec

-----------------------------------------------------------------------------
(* The reserved column counts the units of the confirmed lines.             *)

\* The units of one line.
LEMMA UnitsOfLine ==
  ASSUME NEW o, NEW q \in Nat
  PROVE  IsFiniteSet({o} \X (1 .. q)) /\ Cardinality({o} \X (1 .. q)) = q
<1>1. IsFiniteSet({o}) /\ Cardinality({o}) = 1
  BY FS_Singleton
<1>2. IsFiniteSet(1 .. q) /\ Cardinality(1 .. q) = q
  BY FS_Interval
<1>3. /\ IsFiniteSet({o} \X (1 .. q))
      /\ Cardinality({o} \X (1 .. q)) = Cardinality({o}) * Cardinality(1 .. q)
  BY <1>1, <1>2, FS_Product, Zenon
<1> QED
  BY <1>1, <1>2, <1>3

\* Which lines have which units.
LEMMA UnitsMember ==
  ASSUME NEW p \in Products, NEW o, NEW n
  PROVE  /\ <<o, n>> \in ConfirmedUnits(p) <=> o \in Confirmed /\ n \in 1 .. lines[o][p]
         /\ \A u \in ConfirmedUnits(p) : u = <<u[1], u[2]>>
<1>1. \A u : u \in ConfirmedUnits(p) <=> \E x \in Confirmed : u \in {x} \X (1 .. lines[x][p])
  BY DEF ConfirmedUnits
<1> QED
  BY <1>1

\* The units when an order is confirmed and when it stops being confirmed.
LEMMA UnitsAfter ==
  ASSUME IInv, NEW p \in Products, NEW o \in Orders, NEW s \in Statuses,
         status' = [status EXCEPT ![o] = s], lines' = lines
  PROVE  LET line == {o} \X (1 .. lines[o][p]) IN
         /\ s = "CONFIRMED" => ConfirmedUnits(p)' = ConfirmedUnits(p) \cup line
         /\ s # "CONFIRMED" => ConfirmedUnits(p)' = ConfirmedUnits(p) \ line
         /\ status[o] = "CONFIRMED" => line \subseteq ConfirmedUnits(p)
         /\ status[o] # "CONFIRMED" => ConfirmedUnits(p) \cap line = {}
<1> DEFINE line == {o} \X (1 .. lines[o][p])
<1>1. Confirmed' = IF s = "CONFIRMED" THEN Confirmed \cup {o} ELSE Confirmed \ {o}
  BY DEF Confirmed, IInv, TypeOK
<1>2. \A u : u \in ConfirmedUnits(p) <=> \E x \in Confirmed : u \in {x} \X (1 .. lines[x][p])
  BY DEF ConfirmedUnits
<1>3. \A u : u \in ConfirmedUnits(p)' <=> \E x \in Confirmed' : u \in {x} \X (1 .. lines[x][p])
  BY DEF ConfirmedUnits
<1>4. \A x, u : u \in line /\ u \in {x} \X (1 .. lines[x][p]) => x = o
  OBVIOUS
<1>5. s = "CONFIRMED" => ConfirmedUnits(p)' = ConfirmedUnits(p) \cup line
  BY <1>1, <1>2, <1>3
<1>6. s # "CONFIRMED" => ConfirmedUnits(p)' = ConfirmedUnits(p) \ line
  <2>1. ASSUME s # "CONFIRMED" PROVE \A u : u \in ConfirmedUnits(p)' <=> u \in ConfirmedUnits(p) \ line
    BY <1>1, <1>2, <1>3, <1>4, <2>1
  <2> QED BY <2>1
<1>7. o \in Confirmed <=> status[o] = "CONFIRMED"
  BY DEF Confirmed
<1>8. status[o] = "CONFIRMED" => line \subseteq ConfirmedUnits(p)
  BY <1>2, <1>7
<1>9. status[o] # "CONFIRMED" => ConfirmedUnits(p) \cap line = {}
  BY <1>2, <1>4, <1>7
<1> QED
  BY <1>5, <1>6, <1>8, <1>9

\* The property with the finiteness that the counting needs.
UnitsCounted ==
  \A p \in Products :
    IsFiniteSet(ConfirmedUnits(p)) /\ balance[p].reserved = Cardinality(ConfirmedUnits(p))

\* A commit adds to the column what it adds to the units.
LEMMA CommitCounts ==
  ASSUME IInv, AllCovered, UnitsCounted, NEW w \in Workers, Commit(w)
  PROVE  UnitsCounted'
<1> DEFINE t == tx[w]
<1>1. /\ TxShape(w) /\ CommandCovered(w) /\ t \in Tx /\ t.todo = {}
      /\ t.pc \in {"ask", "balance"} /\ Touched(t) = t.done
  BY DEF IInv, TypeOK, AllCovered, Commit, Touched, Tx
<1>2. status \in [Orders -> Statuses] /\ lines \in [Orders -> [Products -> Nat]]
  BY DEF IInv, TypeOK
<1>3. \A p \in Products : /\ balance'[p].reserved = balance[p].reserved + ReservedAdded(t, p)
                          /\ balance[p].reserved \in Nat
  BY CommitAdds
<1>4. ASSUME \A p \in Products : ReservedAdded(t, p) = 0 /\ ConfirmedUnits(p)' = ConfirmedUnits(p)
      PROVE  UnitsCounted'
  BY <1>3, <1>4 DEF UnitsCounted
<1>5. CASE t.cmd \in Transitions
  <2>1. PICK o \in Orders :
          /\ o = t.order /\ status[o] = t.found /\ CanTransition(t.found, t.cmd)
          /\ t.qty = lines[o] /\ lines[o] \in [Products -> Nat]
          /\ t.done = IF t.found = "DRAFT" /\ t.cmd = "CANCELLED" THEN {} ELSE Positive(t.qty)
    BY <1>1, <1>2, <1>5 DEF TxShape, CommandCovered
  <2>2. status' = [status EXCEPT ![o] = t.cmd] /\ lines' = lines /\ t.cmd \in Statuses
    BY <1>5, <2>1 DEF Commit, Transitions, Statuses
  <2> HIDE DEF t
  <2>3. ASSUME NEW p \in Products
        PROVE  /\ IsFiniteSet(ConfirmedUnits(p)')
               /\ balance'[p].reserved = Cardinality(ConfirmedUnits(p)')
    <3> DEFINE line == {o} \X (1 .. lines[o][p])
               units == ConfirmedUnits(p)
    <3>1. IsFiniteSet(line) /\ Cardinality(line) = lines[o][p] /\ lines[o][p] \in Nat
      BY <2>1, UnitsOfLine
    <3>2. IsFiniteSet(units) /\ balance[p].reserved = Cardinality(units) /\ Cardinality(units) \in Nat
      BY <1>3 DEF UnitsCounted
    <3>3. balance'[p].reserved = Cardinality(units) + ReservedAdded(t, p)
      BY <1>3, <3>2 DEF t
    <3>4. /\ t.cmd = "CONFIRMED" => ConfirmedUnits(p)' = units \cup line
          /\ t.cmd # "CONFIRMED" => ConfirmedUnits(p)' = units \ line
          /\ status[o] = "CONFIRMED" => line \subseteq units
          /\ status[o] # "CONFIRMED" => units \cap line = {}
      BY <2>2, UnitsAfter
    <3> HIDE DEF line, units
    <3>5. CASE t.cmd = "CONFIRMED"
      <4>1. status[o] = "DRAFT" /\ ReservedAdded(t, p) = lines[o][p]
        BY <2>1, <3>5 DEF CanTransition, ReservedAdded, ReservedDelta, Positive
      <4>2. Cardinality(units \cap line) = 0
        BY <3>4, <4>1, FS_EmptySet
      <4>3. /\ IsFiniteSet(units \cup line)
            /\ Cardinality(units \cup line) =
                 Cardinality(units) + Cardinality(line) - Cardinality(units \cap line)
        BY <3>1, <3>2, FS_Union, Zenon
      <4>4. ConfirmedUnits(p)' = units \cup line
        BY <3>4, <3>5
      <4> QED BY <3>1, <3>2, <3>3, <4>1, <4>2, <4>3, <4>4
    <3>6. CASE t.cmd # "CONFIRMED" /\ status[o] = "CONFIRMED"
      <4>1. ReservedAdded(t, p) = -lines[o][p]
        BY <1>5, <2>1, <3>6 DEF CanTransition, ReservedAdded, ReservedDelta, Positive, Transitions
      <4>2. units \cap line = line
        BY <3>4, <3>6
      <4>3. /\ IsFiniteSet(units \ line)
            /\ Cardinality(units \ line) = Cardinality(units) - Cardinality(units \cap line)
        BY <3>2, FS_Difference, Zenon
      <4>4. ConfirmedUnits(p)' = units \ line
        BY <3>4, <3>6
      <4> QED BY <3>1, <3>2, <3>3, <4>1, <4>2, <4>3, <4>4
    <3>7. CASE t.cmd # "CONFIRMED" /\ status[o] # "CONFIRMED"
      <4>1. ReservedAdded(t, p) = 0
        BY <1>5, <2>1, <3>7 DEF CanTransition, ReservedAdded, Transitions
      <4>2. units \ line = units
        BY <3>4, <3>7
      <4>3. ConfirmedUnits(p)' = units
        BY <3>4, <3>7, <4>2
      <4> QED BY <3>2, <3>3, <4>1, <4>3
    <3> QED BY <3>5, <3>6, <3>7
  <2> QED BY <2>3 DEF UnitsCounted
<1>6. CASE t.cmd = "edit"
  <2>1. PICK o \in Orders : o = t.order /\ status[o] = "DRAFT"
    BY <1>1, <1>6 DEF TxShape
  <2>2. status' = status /\ \A x \in Orders : x # o => lines'[x] = lines[x]
    BY <1>2, <1>6, <2>1 DEF Commit, Transitions
  <2>3. Confirmed' = Confirmed /\ \A x \in Confirmed : lines'[x] = lines[x]
    BY <2>1, <2>2 DEF Confirmed
  <2>4. \A p \in Products : ConfirmedUnits(p)' = ConfirmedUnits(p)
    BY <2>3 DEF ConfirmedUnits
  <2>5. \A p \in Products : ReservedAdded(t, p) = 0
    BY <1>6 DEF ReservedAdded, ReservedDelta
  <2> QED BY <1>4, <2>4, <2>5
<1>7. CASE t.cmd \notin Transitions \cup {"edit"}
  <2>1. UNCHANGED <<status, lines>>
    BY <1>7 DEF Commit
  <2>2. \A p \in Products : ConfirmedUnits(p)' = ConfirmedUnits(p)
    BY <2>1 DEF ConfirmedUnits, Confirmed
  <2>3. \A p \in Products : ReservedAdded(t, p) = 0
    BY <1>7 DEF ReservedAdded, ReservedDelta, Transitions
  <2> QED BY <1>4, <2>2, <2>3
<1> QED BY <1>5, <1>6, <1>7

\* The reserved column of a product counts the units of its confirmed lines, however
\* the transitions, edits and crashes interleave.
THEOREM ReservationsAddUp == Spec => []ReservedIsConfirmed
<1>1. Init => AllCovered /\ UnitsCounted
  <2> SUFFICES ASSUME Init PROVE AllCovered /\ UnitsCounted
    OBVIOUS
  <2>1. AllCovered
    BY DEF Init, AllCovered, CommandCovered, Idle, Transitions
  <2>2. Confirmed = {}
    BY DEF Init, Confirmed
  <2>3. \A p \in Products : ConfirmedUnits(p) = {} /\ balance[p].reserved = 0
    BY <2>2 DEF Init, ConfirmedUnits
  <2> QED BY <2>1, <2>3, FS_EmptySet DEF UnitsCounted
<1>2. IInv /\ AllCovered /\ UnitsCounted /\ [Next]_vars => UnitsCounted'
  <2> SUFFICES ASSUME IInv, AllCovered, UnitsCounted, [Next]_vars PROVE UnitsCounted'
    OBVIOUS
  <2>1. ASSUME NEW o \in Orders, NEW ls \in LineSets, CreateDraft(o, ls) PROVE UnitsCounted'
    <3>1. /\ balance' = balance /\ Confirmed' = Confirmed
          /\ \A x \in Confirmed : lines'[x] = lines[x]
      BY <2>1 DEF CreateDraft, Confirmed, IInv, TypeOK
    <3>2. \A p \in Products : ConfirmedUnits(p)' = ConfirmedUnits(p)
      BY <3>1 DEF ConfirmedUnits
    <3> QED BY <3>1, <3>2 DEF UnitsCounted
  <2>2. CASE UNCHANGED rowVars
    BY <2>2 DEF rowVars, UnitsCounted, ConfirmedUnits, Confirmed
  <2> QED BY <2>1, <2>2, CommitCounts, RowWriters
<1>3. UnitsCounted => ReservedIsConfirmed
  BY DEF UnitsCounted, ReservedIsConfirmed
<1> QED
  BY <1>1, <1>2, <1>3, CoveredKept, Invariance, PTL DEF Spec

-----------------------------------------------------------------------------
\* The sales of an order in a ledger, by their places.
Sales(moves, o) == {i \in 1 .. Len(moves) : moves[i].type = "SALE" /\ moves[i].order = o}

\* SoldOnce for one order and product.
Sold(o, p) ==
  IF status[o] = "FULFILLED" /\ lines[o][p] > 0
    THEN \E i \in Sales(ledger[p], o) :
           Sales(ledger[p], o) = {i} /\ ledger[p][i].delta = -lines[o][p]
    ELSE Sales(ledger[p], o) = {}

\* The property, one order and product at a time.
LEMMA SoldEach == SoldOnce <=> \A o \in Orders, p \in Products : Sold(o, p)
BY DEF SoldOnce, Sold, Sales

\* And it holds of the next state when each of them does.
LEMMA SoldEachNext ==
  ASSUME \A o \in Orders, p \in Products : Sold(o, p)'
  PROVE  SoldOnce'
BY DEF SoldOnce, Sold, Sales

\* A movement at the end of the ledger adds at most its own place.
LEMMA SalesAppend ==
  ASSUME NEW moves \in Seq(Move), NEW m \in Move, NEW o
  PROVE  LET longer == Append(moves, m) IN
         /\ Sales(longer, o) = Sales(moves, o) \cup
              IF m.type = "SALE" /\ m.order = o THEN {Len(moves) + 1} ELSE {}
         /\ longer[Len(moves) + 1] = m
<1> DEFINE longer == Append(moves, m)
<1>1. /\ Len(longer) = Len(moves) + 1 /\ Len(moves) \in Nat /\ longer[Len(moves) + 1] = m
      /\ \A i \in 1 .. Len(moves) : longer[i] = moves[i]
  OBVIOUS
<1> HIDE DEF longer
<1>2. 1 .. Len(longer) = (1 .. Len(moves)) \cup {Len(moves) + 1}
  BY <1>1
<1>3. Sales(longer, o) = Sales(moves, o) \cup
        IF m.type = "SALE" /\ m.order = o THEN {Len(moves) + 1} ELSE {}
  BY <1>1, <1>2 DEF Sales
<1> QED
  BY <1>1, <1>3 DEF longer

\* A movement that is no sale of the order adds none.
LEMMA OtherAppend ==
  ASSUME NEW moves \in Seq(Move), NEW m \in Move, NEW o, ~(m.type = "SALE" /\ m.order = o)
  PROVE  Sales(Append(moves, m), o) = Sales(moves, o)
<1>1. Sales(Append(moves, m), o) = Sales(moves, o) \cup
        IF m.type = "SALE" /\ m.order = o THEN {Len(moves) + 1} ELSE {}
  BY SalesAppend
<1>2. (IF m.type = "SALE" /\ m.order = o THEN {Len(moves) + 1} ELSE {}) = {}
  OBVIOUS
<1>3. Sales(moves, o) \cup {} = Sales(moves, o)
  OBVIOUS
<1> QED
  BY <1>1, <1>2, <1>3

\* A commit sells the lines of the order it fulfils, and nothing else.
LEMMA CommitSells ==
  ASSUME IInv, AllCovered, SoldOnce, NEW w \in Workers, Commit(w)
  PROVE  SoldOnce'
<1> DEFINE t == tx[w]
<1>1. /\ TxShape(w) /\ CommandCovered(w) /\ t \in Tx /\ t.todo = {} /\ t.done \subseteq Products
      /\ t.pc \in {"ask", "balance"} /\ Touched(t) = t.done
  BY DEF IInv, TypeOK, AllCovered, Commit, Touched, Tx
<1>2. /\ status' = IF t.cmd \in Transitions THEN [status EXCEPT ![t.order] = t.cmd] ELSE status
      /\ lines' = IF t.cmd = "edit" THEN [lines EXCEPT ![t.order] = t.qty] ELSE lines
      /\ \A p \in Products :
           ledger'[p] = IF Moves(t, p) THEN Append(ledger[p], Movement(t, p)) ELSE ledger[p]
  BY DEF Commit
<1>3. /\ status \in [Orders -> Statuses] /\ lines \in [Orders -> [Products -> Nat]]
      /\ ledger \in [Products -> Seq(Move)]
  BY DEF IInv, TypeOK
<1>4. /\ t.cmd \in Transitions => t.order \in Orders /\ CanTransition(status[t.order], t.cmd)
                                  /\ t.qty = lines[t.order]
      /\ t.cmd = "FULFILLED" => t.done = Positive(t.qty)
      /\ t.cmd = "edit" => t.order \in Orders /\ status[t.order] = "DRAFT" /\ t.done = {}
  BY <1>1 DEF TxShape, CommandCovered, Transitions
<1>5. ASSUME NEW p \in Products, Moves(t, p)
      PROVE  /\ Movement(t, p) \in Move
             /\ Movement(t, p).type = "SALE" <=> t.cmd = "FULFILLED"
             /\ Movement(t, p).order = t.order
             /\ t.cmd = "FULFILLED" => Movement(t, p).delta = -t.qty[p]
  <2>1. t.order \in Orders \cup {None} /\ t.qty[p] \in Int /\ t.row[p].onHand \in Int
    BY <1>1 DEF Tx, Row
  <2>2. OnHandDelta(t.cmd, t.qty[p]) \in Int
    BY <2>1 DEF OnHandDelta
  <2> HIDE DEF t
  <2> QED
    BY <2>1, <2>2 DEF Movement, Move, OnHandDelta
<1> HIDE DEF t
<1>6. ASSUME NEW o \in Orders, NEW p \in Products PROVE Sold(o, p)'
  <2>1. Sold(o, p)
    BY SoldEach
  <2>2. CASE t.cmd = "FULFILLED" /\ t.order = o
    <3>1. /\ status[o] = "CONFIRMED" /\ status'[o] = "FULFILLED" /\ lines' = lines
          /\ t.qty = lines[o] /\ lines[o][p] \in Nat
      BY <1>2, <1>3, <1>4, <2>2 DEF CanTransition, Transitions
    <3>2. Sales(ledger[p], o) = {}
      BY <2>1, <3>1 DEF Sold
    <3>3. CASE lines[o][p] > 0
      <4>1. Moves(t, p)
        BY <1>4, <2>2, <3>1, <3>3 DEF Moves, Positive
      <4>2. /\ Movement(t, p) \in Move /\ Movement(t, p).type = "SALE"
            /\ Movement(t, p).order = o /\ Movement(t, p).delta = -lines[o][p]
            /\ ledger[p] \in Seq(Move) /\ ledger'[p] = Append(ledger[p], Movement(t, p))
        BY <1>2, <1>3, <1>5, <2>2, <3>1, <4>1
      <4>3. /\ Sales(ledger'[p], o) = {Len(ledger[p]) + 1}
            /\ ledger'[p][Len(ledger[p]) + 1] = Movement(t, p)
        BY <3>2, <4>2, SalesAppend
      <4> QED
        BY <3>1, <3>3, <4>2, <4>3 DEF Sold
    <3>4. CASE ~(lines[o][p] > 0)
      <4>1. ~Moves(t, p)
        BY <1>4, <2>2, <3>1, <3>4 DEF Moves, Positive
      <4> QED
        BY <1>2, <3>1, <3>2, <3>4, <4>1 DEF Sold
    <3> QED
      BY <3>3, <3>4
  <2>3. CASE ~(t.cmd = "FULFILLED" /\ t.order = o)
    <3>1. /\ Sales(ledger'[p], o) = Sales(ledger[p], o)
          /\ \A i \in Sales(ledger[p], o) : ledger'[p][i] = ledger[p][i]
      <4>1. CASE Moves(t, p)
        <5>1. Movement(t, p) \in Move /\ ledger[p] \in Seq(Move)
              /\ ~(Movement(t, p).type = "SALE" /\ Movement(t, p).order = o)
              /\ ledger'[p] = Append(ledger[p], Movement(t, p))
          BY <1>2, <1>3, <1>5, <2>3, <4>1
        <5>2. Sales(ledger'[p], o) = Sales(ledger[p], o)
          BY <5>1, OtherAppend
        <5>3. \A i \in Sales(ledger[p], o) : ledger'[p][i] = ledger[p][i]
          BY <5>1 DEF Sales
        <5> QED
          BY <5>2, <5>3
      <4>2. CASE ~Moves(t, p)
        BY <1>2, <4>2
      <4> QED
        BY <4>1, <4>2
    <3>2. \/ status'[o] = status[o] /\ lines'[o] = lines[o]
          \/ status[o] # "FULFILLED" /\ status'[o] # "FULFILLED"
      BY <1>2, <1>3, <1>4, <2>3 DEF CanTransition, Transitions
    <3> QED
      BY <2>1, <3>1, <3>2 DEF Sold
  <2> QED
    BY <2>2, <2>3
<1> QED
  BY <1>6, SoldEachNext

\* Every line of an order is sold once, when it is fulfilled.
THEOREM EachLineSoldOnce == Spec => []SoldOnce
<1>1. Init => SoldOnce
  <2> SUFFICES ASSUME Init, NEW o \in Orders, NEW p \in Products PROVE Sold(o, p)
    BY SoldEach
  <2>1. Sales(ledger[p], o) = {}
    BY DEF Init, Sales
  <2> QED
    BY <2>1 DEF Init, Sold
<1>2. IInv /\ AllCovered /\ SoldOnce /\ [Next]_vars => SoldOnce'
  <2> SUFFICES ASSUME IInv, AllCovered, SoldOnce, [Next]_vars PROVE SoldOnce'
    OBVIOUS
  <2>1. ASSUME NEW o \in Orders, NEW ls \in LineSets, CreateDraft(o, ls) PROVE SoldOnce'
    <3>1. /\ status[o] = "NONE" /\ status' = [status EXCEPT ![o] = "DRAFT"]
          /\ lines' = [lines EXCEPT ![o] = ls] /\ ledger' = ledger
          /\ status \in [Orders -> Statuses] /\ lines \in [Orders -> [Products -> Nat]]
      BY <2>1 DEF CreateDraft, IInv, TypeOK
    <3>2. ASSUME NEW q \in Orders, NEW p \in Products PROVE Sold(q, p)'
      <4>1. Sold(q, p)
        BY SoldEach
      <4>2. CASE q = o
        BY <3>1, <4>1, <4>2 DEF Sold
      <4>3. CASE q # o
        BY <3>1, <4>1, <4>3 DEF Sold
      <4> QED
        BY <4>2, <4>3
    <3> QED
      BY <3>2, SoldEachNext
  <2>2. CASE UNCHANGED rowVars
    BY <2>2 DEF rowVars, SoldOnce
  <2> QED
    BY <2>1, <2>2, CommitSells, RowWriters
<1>3. Init => AllCovered
  BY DEF Init, AllCovered, CommandCovered, Idle, Transitions
<1> QED
  BY <1>1, <1>2, <1>3, CoveredKept, Invariance, PTL DEF Spec

-----------------------------------------------------------------------------
(* Alerts, while no product is edited.                                      *)

\* A command knows the reorder points it goes by, and decides by them.
PointsKnown(w) ==
  LET t == tx[w] IN
  /\ \A p \in t.done :
       t.row[p].alert =
         ReconcileLowStockTransition(Available(t.row[p]), reorder[p], openAlerts[p] > 0)
  /\ t.pc \in {"receipt", "balance"} /\ t.cmd \notin Transitions => t.point = reorder
  /\ t.pc = "balance" => \A p \in Products : NextProduct(w, p) => t.point[p] = reorder[p]

AlertsKnown == AlertsMatch /\ \A w \in Workers : PointsKnown(w)

\* A step of one command that publishes nothing.
LEMMA AlertsOwnStep ==
  ASSUME AlertsKnown, NEW w \in Workers, PointsKnown(w)',
         \A v \in Workers \ {w} : tx'[v] = tx[v],
         UNCHANGED <<balance, rows, openAlerts, reorder>>
  PROVE  AlertsKnown'
<1>1. AlertsMatch'
  BY DEF AlertsKnown, AlertsMatch
<1>2. ASSUME NEW v \in Workers, v # w PROVE PointsKnown(v)'
  <2>1. PointsKnown(v) /\ tx'[v] = tx[v]
    BY <1>2 DEF AlertsKnown
  <2> QED
    BY <2>1 DEF PointsKnown, NextProduct
<1> QED
  BY <1>1, <1>2 DEF AlertsKnown

\* A command that begins or ends knows nothing, or the points it has just read.
LEMMA AlertsBegin ==
  ASSUME IInv, AlertsKnown, NEW w \in Workers, NEW t, tx' = [tx EXCEPT ![w] = t],
         t.done = {}, t.pc \in {"receipt", "balance"} => t.point = reorder,
         UNCHANGED <<balance, rows, openAlerts, reorder>>
  PROVE  AlertsKnown'
<1>1. tx'[w] = t /\ \A v \in Workers \ {w} : tx'[v] = tx[v]
  BY DEF IInv, TypeOK
<1>2. PointsKnown(w)'
  BY <1>1 DEF PointsKnown
<1> QED
  BY <1>1, <1>2, AlertsOwnStep

\* Requests that go on to balances have just read all points.
LEMMA AlertsOnRequest ==
  ASSUME IInv, AlertsKnown, NEW w \in Workers, Request(w)
  PROVE  AlertsKnown'
<1>1. UNCHANGED <<balance, rows, openAlerts, reorder>>
  BY DEF Request, RequestTransition, RequestEdit, RequestReceipt, RequestAdjustment,
     RequestReconcile, rowVars, prodVars
<1>2. PICK t : /\ tx' = [tx EXCEPT ![w] = t] /\ t.done = {}
               /\ t.pc \in {"receipt", "balance"} => t.point = reorder
  <2>1. ASSUME NEW o \in Orders, NEW to \in Transitions, RequestTransition(w, o, to)
        PROVE  \E t : /\ tx' = [tx EXCEPT ![w] = t] /\ t.done = {}
                      /\ t.pc \in {"receipt", "balance"} => t.point = reorder
    <3> DEFINE t == [Idle EXCEPT !.pc = "order", !.cmd = to, !.order = o]
    <3>1. tx' = [tx EXCEPT ![w] = t] /\ t.done = {} /\ t.pc = "order"
      BY <2>1 DEF RequestTransition, Begin, Idle
    <3> HIDE DEF t
    <3> QED
      BY <3>1
  <2>2. ASSUME NEW o \in Orders, NEW ls \in LineSets, RequestEdit(w, o, ls)
        PROVE  \E t : /\ tx' = [tx EXCEPT ![w] = t] /\ t.done = {}
                      /\ t.pc \in {"receipt", "balance"} => t.point = reorder
    <3> DEFINE t == [Idle EXCEPT !.pc = "order", !.cmd = "edit", !.order = o, !.qty = ls]
    <3>1. tx' = [tx EXCEPT ![w] = t] /\ t.done = {} /\ t.pc = "order"
      BY <2>2 DEF RequestEdit, Begin, Idle
    <3> HIDE DEF t
    <3> QED
      BY <3>1
  <2>3. ASSUME NEW r \in Receipts, NEW ls \in LineSets, RequestReceipt(w, r, ls)
        PROVE  \E t : /\ tx' = [tx EXCEPT ![w] = t] /\ t.done = {}
                      /\ t.pc \in {"receipt", "balance"} => t.point = reorder
    <3> DEFINE t == [Idle EXCEPT !.pc = "receipt", !.cmd = "receipt", !.receipt = r,
                                 !.qty = ls, !.point = reorder]
    <3>1. tx' = [tx EXCEPT ![w] = t] /\ t.done = {} /\ t.point = reorder
      BY <2>3 DEF RequestReceipt, Begin, Idle
    <3> HIDE DEF t
    <3> QED
      BY <3>1
  <2>4. ASSUME NEW p \in Products, NEW d, RequestAdjustment(w, p, d)
        PROVE  \E t : /\ tx' = [tx EXCEPT ![w] = t] /\ t.done = {}
                      /\ t.pc \in {"receipt", "balance"} => t.point = reorder
    <3> DEFINE t == [Idle EXCEPT !.pc = "balance", !.cmd = "adjust", !.todo = {p},
                                 !.qty[p] = d, !.point = reorder]
    <3>1. tx' = [tx EXCEPT ![w] = t] /\ t.done = {} /\ t.point = reorder
      BY <2>4 DEF RequestAdjustment, Begin, Idle
    <3> HIDE DEF t
    <3> QED
      BY <3>1
  <2>5. ASSUME RequestReconcile(w)
        PROVE  \E t : /\ tx' = [tx EXCEPT ![w] = t] /\ t.done = {}
                      /\ t.pc \in {"receipt", "balance"} => t.point = reorder
    <3> DEFINE t == [Idle EXCEPT !.pc = "balance", !.cmd = "reconcile", !.todo = rows,
                                 !.point = reorder]
    <3>1. tx' = [tx EXCEPT ![w] = t] /\ t.done = {} /\ t.point = reorder
      BY <2>5 DEF RequestReconcile, Begin, Idle
    <3> HIDE DEF t
    <3> QED
      BY <3>1
  <2> QED
    BY <2>1, <2>2, <2>3, <2>4, <2>5 DEF Request
<1> QED
  BY <1>1, <1>2, AlertsBegin

\* Steps before any balance is asked for.
LEMMA AlertsOnPrepare ==
  ASSUME IInv, AlertsKnown, NEW w \in Workers,
         LockOrder(w) \/ ReadLines(w) \/ ReplaceDraftLines(w) \/ InsertReceipt(w)
  PROVE  AlertsKnown'
<1>1. tx \in [Workers -> Tx] /\ tx[w] \in Tx /\ PointsKnown(w) /\ TxShape(w)
  BY DEF IInv, TypeOK, AlertsKnown
<1>2. /\ UNCHANGED <<balance, rows, openAlerts, reorder>>
      /\ tx[w].pc \in {"order", "lines", "receipt"}
  BY DEF LockOrder, ReadLines, ReplaceDraftLines, InsertReceipt, rowVars, prodVars
<1>3. tx[w].done = {}
  BY <1>1, <1>2 DEF TxShape
<1>4. CASE LockOrder(w)
  <2> DEFINE t == [tx[w] EXCEPT !.pc = "lines", !.found = status[tx[w].order]]
  <2>1. tx' = [tx EXCEPT ![w] = t]
    BY <1>4 DEF LockOrder
  <2>2. t.pc = "lines" /\ t.done = {}
    BY <1>1, <1>3 DEF Tx
  <2> HIDE DEF t
  <2> QED
    BY <1>2, <2>1, <2>2, AlertsBegin
<1>5. CASE ReadLines(w)
  <2> DEFINE qty == lines[tx[w].order]
             todo == IF tx[w].found = "DRAFT" /\ tx[w].cmd = "CANCELLED" THEN {}
                     ELSE {p \in Products : qty[p] > 0}
             t == [tx[w] EXCEPT !.pc = "ask", !.qty = qty, !.todo = todo]
  <2>1. tx' = [tx EXCEPT ![w] = t]
    BY <1>5 DEF ReadLines
  <2> HIDE DEF qty, todo
  <2>2. t.pc = "ask" /\ t.done = {}
    BY <1>1, <1>3 DEF Tx
  <2> HIDE DEF t
  <2> QED
    BY <1>2, <2>1, <2>2, AlertsBegin
<1>6. CASE ReplaceDraftLines(w)
  <2> DEFINE t == [tx[w] EXCEPT !.pc = "ask"]
  <2>1. tx' = [tx EXCEPT ![w] = t]
    BY <1>6 DEF ReplaceDraftLines
  <2>2. t.pc = "ask" /\ t.done = {}
    BY <1>1, <1>3 DEF Tx
  <2> HIDE DEF t
  <2> QED
    BY <1>2, <2>1, <2>2, AlertsBegin
<1>7. CASE InsertReceipt(w)
  <2> DEFINE todo == {p \in Products : tx[w].qty[p] > 0}
             t == [tx[w] EXCEPT !.pc = "balance", !.todo = todo]
  <2>1. tx' = [tx EXCEPT ![w] = t] /\ tx[w].pc = "receipt"
    BY <1>7 DEF InsertReceipt
  <2> HIDE DEF todo
  <2>2. t.done = {} /\ t.point = tx[w].point
    BY <1>1, <1>3 DEF Tx
  <2>3. tx[w].point = reorder
    BY <1>1, <2>1 DEF PointsKnown, TxShape, Transitions
  <2> HIDE DEF t
  <2> QED
    BY <1>2, <2>1, <2>2, <2>3, AlertsBegin
<1> QED
  BY <1>4, <1>5, <1>6, <1>7

\* The point that is asked for is that of the next product, and no other.
LEMMA AlertsOnWork ==
  ASSUME IInv, AlertsKnown, NEW w \in Workers, NEW p \in Products,
         AskBalance(w, p) \/ ProcessLine(w, p)
  PROVE  AlertsKnown'
<1>1. /\ tx \in [Workers -> Tx] /\ tx[w] \in Tx /\ PointsKnown(w) /\ TxShape(w)
      /\ p \in tx[w].todo /\ NextProduct(w, p)
  BY DEF IInv, TypeOK, AlertsKnown, AskBalance, ProcessLine, NextProduct
<1>2. /\ UNCHANGED <<balance, rows, openAlerts, reorder>>
      /\ \A v \in Workers \ {w} : tx'[v] = tx[v]
  BY <1>1 DEF AskBalance, ProcessLine, rowVars, prodVars
<1>3. CASE AskBalance(w, p)
  <2> DEFINE t == [tx[w] EXCEPT !.pc = "balance", !.point[p] = reorder[p]]
  <2>1. tx'[w] = t /\ tx[w].pc = "ask"
    BY <1>1, <1>3 DEF AskBalance
  <2>2. /\ t.cmd = tx[w].cmd /\ t.row = tx[w].row /\ t.todo = tx[w].todo /\ t.done = tx[w].done
        /\ t.point[p] = reorder[p]
    BY <1>1 DEF Tx
  <2>3. tx[w].cmd \in Transitions
    BY <1>1, <2>1 DEF TxShape
  <2> HIDE DEF t
  <2>4. \A q \in Products : NextProduct(w, q)' => q = p
    BY <1>1, <2>1, <2>2, StockAssumption DEF NextProduct
  <2>5. PointsKnown(w)'
    BY <1>1, <1>2, <2>1, <2>2, <2>3, <2>4 DEF PointsKnown
  <2> QED
    BY <1>2, <2>5, AlertsOwnStep
<1>4. CASE ProcessLine(w, p)
  <2> DEFINE next == ProjectInventory(balance[p], tx[w].cmd, tx[w].qty[p])
             alert == ReconcileLowStockTransition(Available(next), tx[w].point[p],
                                                  openAlerts[p] > 0)
             row == [onHand |-> next.onHand, reserved |-> next.reserved, alert |-> alert]
             pc == IF tx[w].cmd \in Transitions THEN "ask" ELSE "balance"
             t == [tx[w] EXCEPT !.pc = pc, !.todo = @ \ {p}, !.done = @ \cup {p},
                                !.row[p] = row]
  <2>1. tx'[w] = t /\ tx[w].pc = "balance" /\ tx[w].point[p] = reorder[p]
    BY <1>1, <1>4 DEF ProcessLine, PointsKnown
  <2>2. row.alert = ReconcileLowStockTransition(Available(row), reorder[p], openAlerts[p] > 0)
    BY <2>1 DEF Available
  <2> HIDE DEF next, alert, row
  <2>3. /\ t.cmd = tx[w].cmd /\ t.point = tx[w].point /\ t.pc = pc
        /\ t.done = tx[w].done \cup {p} /\ t.todo = tx[w].todo \ {p} /\ t.row[p] = row
        /\ \A q \in Products \ {p} : t.row[q] = tx[w].row[q]
    BY <1>1 DEF Tx
  <2>4. tx[w].done \subseteq Products
    BY <1>1 DEF Tx
  <2> HIDE DEF t, pc
  <2>5. ASSUME NEW q \in t.done
        PROVE  t.row[q].alert =
                 ReconcileLowStockTransition(Available(t.row[q]), reorder[q], openAlerts[q] > 0)
    <3>1. CASE q = p
      BY <2>2, <2>3, <3>1
    <3>2. CASE q # p
      BY <1>1, <2>3, <2>4, <3>2 DEF PointsKnown
    <3> QED
      BY <3>1, <3>2
  <2>6. t.pc = "balance" => t.cmd \notin Transitions /\ t.point = reorder
    BY <1>1, <2>1, <2>3 DEF PointsKnown, pc
  <2>7. t.pc \in {"ask", "balance"}
    BY <2>3 DEF pc
  <2>8. PointsKnown(w)'
    BY <1>2, <2>1, <2>5, <2>6, <2>7 DEF PointsKnown
  <2> QED
    BY <1>2, <2>8, AlertsOwnStep
<1> QED
  BY <1>3, <1>4

\* What a commit publishes of a balance it has locked.
LEMMA CommitAlert ==
  ASSUME IInv, AlertsKnown, NEW w \in Workers, Commit(w), NEW p \in tx[w].done, reorder' = reorder
  PROVE  openAlerts'[p] = 1 <=> Available(balance'[p]) <= reorder'[p]
<1> DEFINE row == tx[w].row[p]
<1>1. p \in Products /\ openAlerts[p] \in {0, 1} /\ BufferFresh(w, p)
      /\ row.onHand \in Int /\ row.reserved \in Int /\ reorder[p] \in Nat
  <2>1. tx[w] \in Tx /\ p \in Products
    BY DEF IInv, TypeOK, Tx
  <2>2. openAlerts[p] \in Nat /\ openAlerts[p] <= 1 /\ reorder[p] \in Nat
    BY <2>1 DEF IInv, TypeOK, CommittedOK, OneOpenAlert
  <2>3. row \in Row
    BY <2>1 DEF Tx
  <2>4. BufferFresh(w, p)
    BY DEF IInv, TxShape
  <2>5. row.onHand \in Int /\ row.reserved \in Int
    BY <2>3 DEF Row
  <2> HIDE DEF row
  <2> QED
    BY <2>1, <2>2, <2>4, <2>5
<1>2. /\ balance'[p] = [onHand |-> row.onHand, reserved |-> row.reserved]
      /\ openAlerts'[p] = CASE row.alert = "OPEN" -> openAlerts[p] + 1
                            [] row.alert = "RESOLVE" -> 0
                            [] OTHER -> openAlerts[p]
  BY <1>1 DEF Commit
<1>3. row.alert = ReconcileLowStockTransition(Available(row), reorder[p], openAlerts[p] > 0)
  BY DEF AlertsKnown, PointsKnown
<1> HIDE DEF row
<1>4. Available(balance'[p]) = Available(row) /\ Available(row) \in Int
  BY <1>1, <1>2 DEF Available
<1>5. CASE Available(row) <= reorder[p]
  BY <1>1, <1>2, <1>3, <1>4, <1>5 DEF ReconcileLowStockTransition
<1>6. CASE ~(Available(row) <= reorder[p])
  BY <1>1, <1>2, <1>3, <1>4, <1>6 DEF ReconcileLowStockTransition
<1> QED
  BY <1>5, <1>6

\* Alerts match when a command commits; what others have decided still holds.
LEMMA AlertsOnCommit ==
  ASSUME IInv, AlertsKnown, NEW w \in Workers, Commit(w)
  PROVE  AlertsKnown'
<1>1. /\ tx \in [Workers -> Tx] /\ tx' = [tx EXCEPT ![w] = Idle] /\ reorder' = reorder
      /\ rows' = rows \cup tx[w].done /\ rows \subseteq Products
  BY DEF Commit, Release, prodVars, IInv, TypeOK
<1>2. \A p \in Products \ tx[w].done : balance'[p] = balance[p] /\ openAlerts'[p] = openAlerts[p]
  BY DEF Commit
<1>3. AlertsMatch'
  <2>1. ASSUME NEW p \in rows' PROVE openAlerts'[p] = 1 <=> Available(balance'[p]) <= reorder'[p]
    <3>1. CASE p \in tx[w].done
      BY <1>1, <3>1, CommitAlert
    <3>2. CASE p \notin tx[w].done
      BY <1>1, <1>2, <3>2 DEF AlertsKnown, AlertsMatch
    <3> QED
      BY <3>1, <3>2
  <2> QED
    BY <2>1 DEF AlertsMatch
<1>4. ASSUME NEW v \in Workers PROVE PointsKnown(v)'
  <2>1. CASE v = w
    BY <1>1, <2>1 DEF PointsKnown, Idle
  <2>2. CASE v # w
    <3>1. PointsKnown(v) /\ tx'[v] = tx[v] /\ tx[v] \in Tx
      BY <1>1, <2>2 DEF AlertsKnown
    <3>2. ASSUME NEW p \in tx[v].done PROVE p \in Products \ tx[w].done
      <4>1. BufferFresh(v, p) /\ p \in Products
        BY <3>1 DEF IInv, TxShape, Tx
      <4>2. p \notin tx[w].done
        BY <2>2, <4>1 DEF IInv, TxShape, BufferFresh
      <4> QED
        BY <4>1, <4>2
    <3> QED
      BY <1>1, <1>2, <3>1, <3>2 DEF PointsKnown, NextProduct
  <2> QED
    BY <2>1, <2>2
<1> QED
  BY <1>3, <1>4 DEF AlertsKnown

\* With no reorder point to set, no product is edited.
LEMMA AlertsKept ==
  ASSUME ReorderPoints = {}
  PROVE  IInv /\ AlertsKnown /\ [Next]_vars => AlertsKnown'
<1> SUFFICES ASSUME IInv, AlertsKnown, [Next]_vars PROVE AlertsKnown'
  OBVIOUS
<1>1. ASSUME NEW w \in Workers, Rollback(w) PROVE AlertsKnown'
  <2>1. tx' = [tx EXCEPT ![w] = Idle] /\ UNCHANGED <<balance, rows, openAlerts, reorder>>
    BY <1>1 DEF Rollback, Release, rowVars, prodVars
  <2>2. Idle.done = {} /\ Idle.pc = "idle"
    BY DEF Idle
  <2> QED
    BY <2>1, <2>2, AlertsBegin
<1>2. ASSUME NEW w \in Workers, Step(w) \/ Crash(w) PROVE AlertsKnown'
  BY <1>1, <1>2, AlertsOnPrepare, AlertsOnWork, AlertsOnCommit
  DEF Step, Crash, RejectLine, RejectOrder, RejectReceipt
<1>3. ASSUME NEW o \in Orders, NEW ls \in LineSets, CreateDraft(o, ls)
      PROVE  UNCHANGED <<balance, rows, openAlerts, reorder, tx>>
  BY <1>3 DEF CreateDraft, prodVars
<1>4. UNCHANGED vars => UNCHANGED <<balance, rows, openAlerts, reorder, tx>>
  BY DEF vars, rowVars, prodVars
<1>5. CASE UNCHANGED <<balance, rows, openAlerts, reorder, tx>>
  BY <1>5 DEF AlertsKnown, AlertsMatch, PointsKnown, NextProduct
<1> QED
  BY <1>2, <1>3, <1>4, <1>5, AlertsOnRequest DEF Next

\* While no product is edited, an alert is open exactly when the committed stock
\* calls for it.
THEOREM AlertsRight ==
  ASSUME ReorderPoints = {}
  PROVE  Spec => []AlertsMatch
<1>1. Init => AlertsKnown
  <2> SUFFICES ASSUME Init PROVE AlertsKnown
    OBVIOUS
  <2>1. AlertsMatch
    BY StockAssumption DEF Init, AlertsMatch, Available
  <2>2. \A w \in Workers : PointsKnown(w)
    BY DEF Init, PointsKnown, Idle
  <2> QED
    BY <2>1, <2>2 DEF AlertsKnown
<1>2. AlertsKnown => AlertsMatch
  BY DEF AlertsKnown
<1>3. IInv /\ AlertsKnown /\ [Next]_vars => AlertsKnown'
  BY AlertsKept
<1> QED
  BY <1>1, <1>2, <1>3, Invariance, PTL DEF Spec
=============================================================================
