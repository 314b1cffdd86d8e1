----------------------------- MODULE IntakeProofs -----------------------------
(***************************************************************************)
(* Proofs about what comes in from outside: the deliveries of a storefront and  *)
(* the CSV files of the catalog.  The two parts share no state.               *)
(*                                                                         *)
(* Deliveries, for any deliveries, handlers, jobs and limits: a handler that is *)
(* about to commit overwrites the delivery with what it has counted on its own.  *)
(* That is right because it is the only writer: webhooks hold the lock of the key *)
(* and write a delivery that does not exist, retries hold the lock of the row and  *)
(* write one that does (WriterOK).                                          *)
(*                                                                         *)
(* CSV files, for any catalogs, workspaces and limit, with names and descriptions *)
(* of any length: a text is split into the pieces it was joined from, one for each  *)
(* cell of the written table and one for each separator, and the parser is always  *)
(* inside one of them, with every cell before it read as it was written (CsvInv).  *)
(* Where a piece lies is a function on numbers given by its successive values, so   *)
(* what holds of every piece is shown of the least one that fails (CountUp).     *)
(***************************************************************************)
EXTENDS Deliveries, ProductCsv, FiniteSetTheorems, SequenceTheorems, WellFoundedInduction, TLAPS

-----------------------------------------------------------------------------
(* Deliveries.                                                              *)

Writing(w) == tx[w].pc \in {"work", "commit"}
Known(d) == d \in DeliveryIds /\ delivery[d].status # "NONE"

\* What a handler works on, and what is true of it since it began.
HandlerOK(w) ==
  /\ tx[w].pc # "idle" => tx[w].d \in DeliveryIds
  /\ tx[w].pc = "key" => tx[w].kind = "webhook"
  /\ tx[w].pc \in {"row", "read"} => tx[w].kind # "webhook"
  /\ tx[w].pc \in {"row", "read", "enqueue"} => Known(tx[w].d)
  /\ tx[w].pc = "read" => rowLock[tx[w].d] = w
  /\ tx[w].pc = "ack" => tx[w].kind = "job"
  /\ tx[w].kind = "job" => tx[w].job \in Jobs /\ job[tx[w].job].state = "active"

WriterOK(w) ==
  LET d == tx[w].d IN
  /\ tx[w].attempts = delivery[d].attempts + 1
  /\ \/ tx[w].kind = "webhook" /\ keyLock[d] = w /\ delivery[d].status = "NONE"
     \/ tx[w].kind # "webhook" /\ rowLock[d] = w /\ delivery[d].status = "FAILED"
  /\ tx[w].kind = "job" => tx[w].attempts <= MaxAttempts
  /\ tx[w].pc = "commit" => tx[w].status # "NONE"

\* A job is run by one handler at a time.
JobsApart ==
  \A v, w \in Workers :
    tx[v].kind = "job" /\ tx[w].kind = "job" /\ tx[v].job = tx[w].job => v = w

\* Jobs, stored responses and the recovery job are about known deliveries.
JobOK(j) ==
  /\ job[j].state # "none" => Known(job[j].d)
  /\ job[j].state \in {"created", "retry"} => job[j].runs <= RetryLimit
RecoveryOK ==
  /\ \A d \in recovery.todo : Known(d)
  /\ recovery.next # None => Known(recovery.next)
RowOK(d) ==
  /\ delivery[d].status = "NONE" => delivery[d].attempts = 0
  /\ reply[d] # "NONE" => Known(d)

\* The inductive invariant.
DeliveryInv ==
  /\ TypeOK
  /\ OneOrder /\ EveryAttemptCounted
  /\ \A d \in DeliveryIds : RowOK(d)
  /\ \A w \in Workers : HandlerOK(w) /\ (Writing(w) => WriterOK(w))
  /\ \A j \in Jobs : JobOK(j)
  /\ RecoveryOK /\ JobsApart

TxSet ==
  [pc : {"idle", "key", "row", "read", "work", "commit", "enqueue", "ack"},
   kind : {"none", "webhook", "manual", "job"}, d : DeliveryIds \cup {None},
   job : Jobs \cup {None}, attempts : Nat, status : {"NONE", "SUCCEEDED", "FAILED"}]
JobSet == [state : {"none", "created", "retry", "active"},
           d : DeliveryIds \cup {None}, runs : 0 .. RetryLimit + 1]

-----------------------------------------------------------------------------
LEMMA InitInvariant == Init => DeliveryInv
<1> SUFFICES ASSUME Init PROVE DeliveryInv
  OBVIOUS
<1> USE DEF Init
<1>1. TypeOK
  BY DeliveryAssumption DEF TypeOK, NoDelivery, Idle, NoJob, NoScan
<1>2. OneOrder /\ EveryAttemptCounted /\ \A d \in DeliveryIds : RowOK(d)
  BY DEF OneOrder, EveryAttemptCounted, RowOK, NoDelivery
<1>3. \A w \in Workers : HandlerOK(w) /\ (Writing(w) => WriterOK(w))
  BY DEF HandlerOK, Writing, Idle
<1>4. (\A j \in Jobs : JobOK(j)) /\ RecoveryOK /\ JobsApart
  BY DEF JobOK, RecoveryOK, JobsApart, NoJob, NoScan, Idle
<1> QED BY <1>1, <1>2, <1>3, <1>4 DEF DeliveryInv

\* A step that leaves the rows alone.  One handler at most goes on, and no other
\* handler loses a lock.
LEMMA RowsAlone ==
  ASSUME DeliveryInv, UNCHANGED <<delivery, orders, tries>>, NEW w,
         TypeOK',
         \A d \in DeliveryIds : reply'[d] \in {reply[d], "NONE", delivery[d].status},
         \A v \in Workers \ {w} : tx'[v] = tx[v],
         \A v \in Workers \ {w}, d \in DeliveryIds :
           (keyLock[d] = v => keyLock'[d] = v) /\ (rowLock[d] = v => rowLock'[d] = v),
         w \in Workers => HandlerOK(w)' /\ (Writing(w)' => WriterOK(w)'),
         \A v \in Workers \ {w} : tx[v].kind = "job" => job'[tx[v].job].state = "active",
         \A j \in Jobs : JobOK(j)', RecoveryOK', JobsApart'
  PROVE  DeliveryInv'
<1>1. OneOrder' /\ EveryAttemptCounted'
  BY DEF DeliveryInv, OneOrder, EveryAttemptCounted
<1>2. \A d \in DeliveryIds : RowOK(d)'
  BY DEF DeliveryInv, RowOK, Known
<1>3. ASSUME NEW v \in Workers PROVE HandlerOK(v)' /\ (Writing(v)' => WriterOK(v)')
  <2>1. CASE v = w
    BY <2>1
  <2>2. CASE v # w
    <3>1. tx'[v] = tx[v] /\ HandlerOK(v) /\ (Writing(v) => WriterOK(v))
      BY <2>2 DEF DeliveryInv
    <3>2. tx[v].pc # "idle" => tx[v].d \in DeliveryIds
      BY <3>1 DEF HandlerOK
    <3>3. HandlerOK(v)'
      BY <2>2, <3>1, <3>2 DEF HandlerOK, Known
    <3>4. Writing(v)' => WriterOK(v)'
      BY <2>2, <3>1, <3>2 DEF Writing, WriterOK
    <3> QED BY <3>3, <3>4
  <2> QED BY <2>1, <2>2
<1> QED BY <1>1, <1>2, <1>3 DEF DeliveryInv

\* A handler that changes nothing but its own state, and maybe a lock or a reply.
LEMMA HandlerStep ==
  ASSUME DeliveryInv, NEW w \in Workers, NEW t \in TxSet,
         tx' = [tx EXCEPT ![w] = t],
         UNCHANGED <<delivery, orders, tries, queue, recovery>>, TypeOK',
         \A d \in DeliveryIds : reply'[d] \in {reply[d], delivery[d].status},
         \A v \in Workers \ {w}, d \in DeliveryIds :
           (keyLock[d] = v => keyLock'[d] = v) /\ (rowLock[d] = v => rowLock'[d] = v),
         t.kind = "job" => tx[w].kind = "job" /\ t.job = tx[w].job,
         HandlerOK(w)', Writing(w)' => WriterOK(w)'
  PROVE  DeliveryInv'
<1>1. \A v \in Workers \ {w} : tx'[v] = tx[v]
  BY DEF DeliveryInv, TypeOK
<1>2. (\A j \in Jobs : JobOK(j)') /\ RecoveryOK'
  BY DEF DeliveryInv, JobOK, RecoveryOK, Known, queue
<1>3. JobsApart'
  BY DEF DeliveryInv, TypeOK, JobsApart
<1>4. \A v \in Workers \ {w} : tx[v].kind = "job" => job'[tx[v].job].state = "active"
  BY DEF DeliveryInv, HandlerOK, queue
<1> QED BY <1>1, <1>2, <1>3, <1>4, RowsAlone

\* What holds of a transaction after it has ended.
LEMMA EndedOK ==
  ASSUME DeliveryInv, NEW w \in Workers, HandlerOK(w), tx[w] \in TxSet,
         NEW status \in {"NONE", "SUCCEEDED", "FAILED"}, NEW d \in DeliveryIds, tx[w].d = d,
         tx'[w] = After(w, status), delivery'[d].status # "NONE", job' = job
  PROVE  /\ After(w, status) \in TxSet /\ HandlerOK(w)' /\ ~Writing(w)'
         /\ After(w, status).kind = "job" =>
              tx[w].kind = "job" /\ After(w, status).job = tx[w].job
<1>1. After(w, status) \in TxSet
  BY DEF After, TxSet, Idle
<1>2. CASE tx[w].kind = "webhook" /\ status = "FAILED"
  BY <1>1, <1>2, DeliveryAssumption DEF After, HandlerOK, Writing, Known, TxSet
<1>3. CASE tx[w].kind = "job"
  BY <1>3, DeliveryAssumption DEF After, HandlerOK, Writing, Known, TxSet
<1>4. CASE ~(tx[w].kind = "webhook" /\ status = "FAILED") /\ tx[w].kind # "job"
  <2>1. After(w, status) = Idle
    BY <1>4 DEF After
  <2>2. tx'[w] = Idle
    BY <2>1
  <2> QED BY <1>1, <2>2 DEF HandlerOK, Writing, Idle
<1> QED BY <1>1, <1>2, <1>3, <1>4

LEMMA RequestKeeps ==
  ASSUME DeliveryInv, NEW w \in Workers, NEW d \in DeliveryIds,
         ReceiveWebhook(w, d) \/ RequestRetry(w, d)
  PROVE  DeliveryInv'
<1>1. PICK t \in {[Idle EXCEPT !.pc = "key", !.kind = "webhook", !.d = d],
                  [Idle EXCEPT !.pc = "row", !.kind = "manual", !.d = d]} :
        /\ tx' = [tx EXCEPT ![w] = t]
        /\ t.kind = "manual" => delivery[d].status # "NONE"
        /\ UNCHANGED <<rows, locks, queue, recovery>>
  BY DEF ReceiveWebhook, RequestRetry, Begin, Idle
<1>2. t \in TxSet /\ tx'[w] = t
  <2>1. [Idle EXCEPT !.pc = "key", !.kind = "webhook", !.d = d] \in TxSet
    BY DEF TxSet, Idle
  <2>2. [Idle EXCEPT !.pc = "row", !.kind = "manual", !.d = d] \in TxSet
    BY DEF TxSet, Idle
  <2> QED BY <1>1, <2>1, <2>2 DEF DeliveryInv, TypeOK
<1>3. TypeOK'
  BY <1>1, <1>2 DEF DeliveryInv, TypeOK, TxSet, rows, locks, queue
<1>4. HandlerOK(w)' /\ ~Writing(w)'
  BY ZenonT(40), <1>1, <1>2 DEF HandlerOK, Writing, Known, Idle, rows
<1>5. t.kind # "job"
  BY <1>1 DEF Idle
<1> QED BY <1>1, <1>2, <1>3, <1>4, <1>5, HandlerStep DEF rows, locks, queue

LEMMA FetchKeeps ==
  ASSUME DeliveryInv, NEW w \in Workers, NEW j \in Jobs, FetchJob(w, j)
  PROVE  DeliveryInv'
<1> DEFINE t == [Idle EXCEPT !.pc = "row", !.kind = "job", !.d = job[j].d, !.job = j]
<1>1. /\ tx' = [tx EXCEPT ![w] = t]
      /\ job[j].state \in {"created", "retry"} /\ job[j] \in JobSet
      /\ job' = [job EXCEPT ![j].state = "active", ![j].runs = @ + 1]
      /\ Known(job[j].d) /\ job[j].runs <= RetryLimit
  BY DEF FetchJob, Begin, DeliveryInv, JobOK, TypeOK, JobSet
<1>2. t \in TxSet /\ tx'[w] = t
  BY <1>1 DEF TxSet, Idle, DeliveryInv, TypeOK, Known
<1>3. job'[j] \in JobSet /\ job'[j].d = job[j].d /\ job'[j].state = "active"
  BY <1>1, DeliveryAssumption DEF JobSet, DeliveryInv, TypeOK
<1>4. TypeOK'
  <2>1. tx' \in [Workers -> TxSet]
    BY <1>1, <1>2 DEF DeliveryInv, TypeOK, TxSet
  <2>2. job' \in [Jobs -> JobSet]
    BY <1>1, <1>3 DEF DeliveryInv, TypeOK, JobSet
  <2> QED BY <2>1, <2>2 DEF FetchJob, DeliveryInv, TypeOK, TxSet, JobSet, rows, locks
<1>5. HandlerOK(w)' /\ ~Writing(w)'
  <2>1. tx'[w].d = job[j].d /\ delivery' = delivery
    BY <1>2 DEF Idle, FetchJob, rows
  <2>2. tx'[w].pc = "row" /\ tx'[w].kind = "job" /\ tx'[w].job = j
    BY <1>2 DEF Idle
  <2> QED BY <1>1, <1>3, <2>1, <2>2 DEF HandlerOK, Writing, Known
<1>6. ASSUME NEW i \in Jobs PROVE JobOK(i)'
  <2>1. CASE i = j
    BY <1>1, <1>3, <2>1 DEF JobOK, Known, FetchJob, rows
  <2>2. CASE i # j
    BY <1>1, <2>2 DEF JobOK, Known, FetchJob, rows, DeliveryInv, TypeOK
  <2> QED BY <2>1, <2>2
<1>7. RecoveryOK'
  BY DEF RecoveryOK, Known, FetchJob, rows, DeliveryInv
<1>8. \A v \in Workers \ {w} : tx'[v] = tx[v]
  BY <1>1 DEF DeliveryInv, TypeOK
<1>9. \A v \in Workers : tx[v].kind = "job" =>
        tx[v].job # j /\ job'[tx[v].job].state = "active"
  BY <1>1 DEF DeliveryInv, HandlerOK, TypeOK
<1>10. JobsApart'
  <2>1. tx'[w].job = j
    BY <1>2 DEF Idle
  <2> QED BY <1>8, <1>9, <2>1 DEF DeliveryInv, JobsApart
<1> HIDE DEF t
<1> QED BY <1>4, <1>5, <1>6, <1>7, <1>8, <1>9, <1>10, RowsAlone DEF FetchJob, rows, locks

LEMMA EndKeeps ==
  ASSUME DeliveryInv, NEW w \in Workers, NEW status \in {"NONE", "SUCCEEDED", "FAILED"},
         tx' = [tx EXCEPT ![w] = After(w, status)], Known(tx[w].d),
         UNCHANGED <<delivery, orders, tries, queue, recovery, used>>,
         reply' \in [DeliveryIds -> {"NONE", "SUCCEEDED", "FAILED"}],
         \A d \in DeliveryIds : reply'[d] \in {reply[d], delivery[d].status},
         Release(w) \/ UNCHANGED locks
  PROVE  DeliveryInv'
<1>1. tx[w] \in TxSet /\ HandlerOK(w) /\ tx'[w] = After(w, status)
  BY DEF DeliveryInv, TypeOK, TxSet
<1>2. PICK d \in DeliveryIds : tx[w].d = d /\ delivery[d].status # "NONE"
  BY DEF Known
<1>3. /\ After(w, status) \in TxSet /\ HandlerOK(w)' /\ ~Writing(w)'
      /\ After(w, status).kind = "job" =>
           tx[w].kind = "job" /\ After(w, status).job = tx[w].job
  BY <1>1, <1>2, EndedOK DEF queue
<1>4. /\ keyLock' \in [DeliveryIds -> Workers \cup {None}]
      /\ rowLock' \in [DeliveryIds -> Workers \cup {None}]
      /\ \A v \in Workers \ {w}, e \in DeliveryIds :
           (keyLock[e] = v => keyLock'[e] = v) /\ (rowLock[e] = v => rowLock'[e] = v)
  BY DEF Release, locks, DeliveryInv, TypeOK
<1>5. tx' \in [Workers -> TxSet]
  BY <1>3 DEF DeliveryInv, TypeOK, TxSet
<1>6. TypeOK'
  BY <1>4, <1>5 DEF DeliveryInv, TypeOK, TxSet, queue
<1> QED BY <1>3, <1>4, <1>6, HandlerStep

LEMMA ReplayKeeps ==
  ASSUME DeliveryInv, NEW w \in Workers, ReplayWebhook(w) \/ KnownDelivery(w)
  PROVE  DeliveryInv'
<1>1. tx[w].d \in DeliveryIds /\ RowOK(tx[w].d)
  BY DEF ReplayWebhook, KnownDelivery, DeliveryInv, HandlerOK
<1>2. Known(tx[w].d)
  BY <1>1 DEF ReplayWebhook, KnownDelivery, RowOK, Known
<1>3. PICK status \in {"NONE", "SUCCEEDED", "FAILED"} : tx' = [tx EXCEPT ![w] = After(w, status)]
  BY <1>1 DEF ReplayWebhook, KnownDelivery, DeliveryInv, TypeOK
<1>4. /\ reply' \in [DeliveryIds -> {"NONE", "SUCCEEDED", "FAILED"}]
      /\ \A d \in DeliveryIds : reply'[d] \in {reply[d], delivery[d].status}
  BY <1>1 DEF ReplayWebhook, KnownDelivery, DeliveryInv, TypeOK, rows
<1> QED
  BY <1>2, <1>3, <1>4, EndKeeps DEF ReplayWebhook, KnownDelivery, rows, queue

LEMMA NothingKeeps ==
  ASSUME DeliveryInv, NEW w \in Workers, NothingToRetry(w)
  PROVE  DeliveryInv'
<1>1. Known(tx[w].d)
  BY DEF NothingToRetry, DeliveryInv, HandlerOK
<1>2. delivery[tx[w].d].status \in {"NONE", "SUCCEEDED", "FAILED"}
  BY <1>1 DEF DeliveryInv, TypeOK, Known
<1> QED
  BY <1>1, <1>2, EndKeeps DEF NothingToRetry, rows, queue, DeliveryInv, TypeOK

\* A transaction begins to write.
LEMMA NewKeeps ==
  ASSUME DeliveryInv, NEW w \in Workers, NewDelivery(w)
  PROVE  DeliveryInv'
<1> DEFINE d == tx[w].d
           t == [tx[w] EXCEPT !.pc = "work", !.attempts = 1]
<1>1. /\ tx[w].pc = "key" /\ tx[w].kind = "webhook" /\ d \in DeliveryIds
      /\ tx[w] \in TxSet /\ delivery[d].status = "NONE" /\ delivery[d].attempts = 0
  BY DEF NewDelivery, DeliveryInv, HandlerOK, RowOK, TypeOK, TxSet
<1>2. t \in TxSet /\ tx' = [tx EXCEPT ![w] = t] /\ tx'[w] = t
  BY <1>1 DEF NewDelivery, DeliveryInv, TypeOK, TxSet
<1>3. TypeOK'
  <2>1. tx' \in [Workers -> TxSet]
    BY <1>2 DEF DeliveryInv, TypeOK, TxSet
  <2>2. keyLock' \in [DeliveryIds -> Workers \cup {None}]
    BY DEF NewDelivery, DeliveryInv, TypeOK
  <2> QED BY <2>1, <2>2 DEF NewDelivery, DeliveryInv, TypeOK, TxSet, rows, queue
<1>4. \A v \in Workers \ {w}, e \in DeliveryIds :
        (keyLock[e] = v => keyLock'[e] = v) /\ (rowLock[e] = v => rowLock'[e] = v)
  BY <1>1, DeliveryAssumption DEF NewDelivery, KeyFree, DeliveryInv, TypeOK
<1>5. HandlerOK(w)'
  BY <1>1, <1>2 DEF HandlerOK
<1>6. WriterOK(w)'
  BY <1>1, <1>2 DEF WriterOK, NewDelivery, rows, DeliveryInv, TypeOK
<1>7. t.kind = tx[w].kind /\ t.job = tx[w].job
  BY <1>1 DEF TxSet
<1>8. UNCHANGED <<delivery, orders, tries, reply, queue, recovery>>
  BY DEF NewDelivery, rows
<1> HIDE DEF t
<1> QED BY <1>2, <1>3, <1>4, <1>5, <1>6, <1>7, <1>8, HandlerStep

LEMMA LockKeeps ==
  ASSUME DeliveryInv, NEW w \in Workers, LockDelivery(w)
  PROVE  DeliveryInv'
<1> DEFINE d == tx[w].d
           t == [tx[w] EXCEPT !.pc = "read"]
<1>1. tx[w].pc = "row" /\ Known(d) /\ tx[w] \in TxSet /\ HandlerOK(w)
  BY DEF LockDelivery, DeliveryInv, HandlerOK, TypeOK, TxSet
<1>2. t \in TxSet /\ tx' = [tx EXCEPT ![w] = t] /\ tx'[w] = t
  BY <1>1 DEF LockDelivery, DeliveryInv, TypeOK, TxSet
<1>3. TypeOK'
  BY <1>1, <1>2 DEF LockDelivery, DeliveryInv, TypeOK, TxSet, rows, queue, Known
<1>4. \A v \in Workers \ {w}, e \in DeliveryIds :
        (keyLock[e] = v => keyLock'[e] = v) /\ (rowLock[e] = v => rowLock'[e] = v)
  BY <1>1, DeliveryAssumption DEF LockDelivery, RowFree, DeliveryInv, TypeOK
<1>5. HandlerOK(w)' /\ ~Writing(w)'
  BY <1>1, <1>2 DEF HandlerOK, Writing, Known, LockDelivery, rows, queue, DeliveryInv, TypeOK
<1>7. t.kind = tx[w].kind /\ t.job = tx[w].job
  BY <1>1 DEF TxSet
<1> HIDE DEF t
<1> QED BY <1>1, <1>2, <1>3, <1>4, <1>5, <1>7, HandlerStep DEF LockDelivery, TxSet, rows, queue

LEMMA AttemptFields ==
  ASSUME NEW x \in TxSet, NEW n \in Nat
  PROVE  LET t == [x EXCEPT !.pc = "work", !.attempts = n]
         IN /\ t \in TxSet /\ t.pc = "work" /\ t.attempts = n
            /\ t.kind = x.kind /\ t.d = x.d /\ t.job = x.job
BY DEF TxSet

LEMMA ResultFields ==
  ASSUME NEW x \in TxSet, NEW status \in {"SUCCEEDED", "FAILED"}
  PROVE  LET t == [x EXCEPT !.pc = "commit", !.status = status]
         IN /\ t \in TxSet /\ t.pc = "commit" /\ t.status = status
            /\ t.kind = x.kind /\ t.d = x.d /\ t.job = x.job /\ t.attempts = x.attempts
BY DEF TxSet

LEMMA StartKeeps ==
  ASSUME DeliveryInv, NEW w \in Workers, StartAttempt(w)
  PROVE  DeliveryInv'
<1> DEFINE d == tx[w].d
           t == [tx[w] EXCEPT !.pc = "work", !.attempts = delivery[d].attempts + 1]
<1>1. /\ tx[w].pc = "read" /\ Known(d) /\ tx[w] \in TxSet /\ HandlerOK(w)
      /\ delivery[d].attempts \in Nat /\ delivery[d].status \in {"SUCCEEDED", "FAILED"}
  BY DEF StartAttempt, DeliveryInv, HandlerOK, TypeOK, TxSet, Known
<1>2. t \in TxSet /\ tx' = [tx EXCEPT ![w] = t] /\ tx'[w] = t
  <2>1. t \in TxSet
    <3>1. delivery[d].attempts + 1 \in Nat
      BY <1>1
    <3> QED BY <1>1, <3>1, AttemptFields
  <2>2. tx' = [tx EXCEPT ![w] = t]
    BY DEF StartAttempt
  <2> QED BY <2>1, <2>2 DEF DeliveryInv, TypeOK
<1>3. TypeOK'
  BY <1>2 DEF StartAttempt, DeliveryInv, TypeOK, TxSet, rows, locks, queue
<1>4. /\ tx'[w].pc = "work" /\ tx'[w].kind = tx[w].kind /\ tx'[w].d = d
      /\ tx'[w].job = tx[w].job /\ tx'[w].attempts = delivery[d].attempts + 1
  <2>1. delivery[d].attempts + 1 \in Nat
    BY <1>1
  <2>2. t.pc = "work" /\ t.kind = tx[w].kind /\ t.d = d /\ t.job = tx[w].job
        /\ t.attempts = delivery[d].attempts + 1
    BY <1>1, <2>1, AttemptFields
  <2> QED BY <1>2, <2>2
<1>5. HandlerOK(w)'
  BY <1>1, <1>4 DEF HandlerOK, Known, StartAttempt, queue
<1>6. WriterOK(w)'
  <2>1. rowLock[d] = w /\ tx[w].kind # "webhook" /\ delivery[d].status = "FAILED"
    BY <1>1 DEF HandlerOK, StartAttempt
  <2>2. tx[w].kind = "job" => delivery[d].attempts < MaxAttempts
    BY <1>1, DeliveryAssumption DEF StartAttempt, LimitReached
  <2>3. delivery' = delivery /\ rowLock' = rowLock
    BY DEF StartAttempt, rows, locks
  <2> HIDE DEF d
  <2> QED BY <1>1, <1>4, <2>1, <2>2, <2>3, DeliveryAssumption DEF WriterOK
<1>7. t.kind = tx[w].kind /\ t.job = tx[w].job
  BY <1>2, <1>4
<1> HIDE DEF t
<1> QED BY <1>2, <1>3, <1>5, <1>6, <1>7, HandlerStep DEF StartAttempt, rows, locks, queue

LEMMA AttemptKeeps ==
  ASSUME DeliveryInv, NEW w \in Workers, NEW status \in {"SUCCEEDED", "FAILED"},
         Attempt(w, status)
  PROVE  DeliveryInv'
<1> DEFINE t == [tx[w] EXCEPT !.pc = "commit", !.status = status]
<1>1. tx[w].pc = "work" /\ tx[w] \in TxSet /\ HandlerOK(w) /\ WriterOK(w)
  BY DEF Attempt, DeliveryInv, Writing, TypeOK, TxSet
<1>2. t \in TxSet /\ tx' = [tx EXCEPT ![w] = t] /\ tx'[w] = t
  BY <1>1 DEF Attempt, DeliveryInv, TypeOK, TxSet
<1>3. TypeOK'
  BY <1>2 DEF Attempt, DeliveryInv, TypeOK, TxSet, rows, locks, queue
<1>4. /\ tx'[w].pc = "commit" /\ tx'[w].kind = tx[w].kind /\ tx'[w].d = tx[w].d
      /\ tx'[w].job = tx[w].job /\ tx'[w].attempts = tx[w].attempts /\ tx'[w].status = status
  <2>1. /\ t.pc = "commit" /\ t.kind = tx[w].kind /\ t.d = tx[w].d
        /\ t.job = tx[w].job /\ t.attempts = tx[w].attempts /\ t.status = status
    BY <1>1, ResultFields
  <2> QED BY <1>2, <2>1
<1>5. HandlerOK(w)'
  BY <1>1, <1>4 DEF HandlerOK, Attempt, queue
<1>6. WriterOK(w)'
  <2>1. delivery' = delivery /\ rowLock' = rowLock /\ keyLock' = keyLock
    BY DEF Attempt, rows, locks
  <2> QED BY <1>1, <1>4, <2>1 DEF WriterOK
<1>7. t.kind = tx[w].kind /\ t.job = tx[w].job
  BY <1>2, <1>4
<1> HIDE DEF t
<1> QED BY <1>2, <1>3, <1>5, <1>6, <1>7, HandlerStep DEF Attempt, rows, locks, queue

-----------------------------------------------------------------------------
\* The commit: the handler is the only one that writes the delivery.
LEMMA CommitKeeps ==
  ASSUME DeliveryInv, NEW w \in Workers, Commit(w)
  PROVE  DeliveryInv'
<1> DEFINE d == tx[w].d
           status == tx[w].status
<1>1. /\ tx[w].pc = "commit" /\ d \in DeliveryIds /\ tx[w] \in TxSet
      /\ HandlerOK(w) /\ WriterOK(w) /\ status \in {"SUCCEEDED", "FAILED"}
  BY DEF Commit, DeliveryInv, HandlerOK, Writing, WriterOK, TypeOK, TxSet
<1>2. /\ delivery'[d] = [status |-> status, attempts |-> tx[w].attempts]
      /\ orders'[d] = orders[d] + OrderRows(status) /\ tries'[d] = tries[d] + 1
      /\ \A e \in DeliveryIds \ {d} :
           delivery'[e] = delivery[e] /\ orders'[e] = orders[e] /\ tries'[e] = tries[e]
      /\ reply' \in [DeliveryIds -> {"NONE", "SUCCEEDED", "FAILED"}]
      /\ \A e \in DeliveryIds \ {d} : reply'[e] = reply[e]
      /\ tx' = [tx EXCEPT ![w] = After(w, status)]
      /\ UNCHANGED <<queue, recovery>>
  BY <1>1 DEF Commit, DeliveryInv, TypeOK
<1>3. delivery'[d].status = status /\ delivery'[d].attempts = tx[w].attempts
  BY <1>2
<1>4. \A e \in DeliveryIds : Known(e) => Known(e)'
  BY <1>1, <1>2, <1>3 DEF Known
<1>5. tx'[w] = After(w, status) /\ \A v \in Workers \ {w} : tx'[v] = tx[v]
  BY <1>2 DEF DeliveryInv, TypeOK
<1>6. /\ After(w, status) \in TxSet /\ HandlerOK(w)' /\ ~Writing(w)'
      /\ After(w, status).kind = "job" =>
           tx[w].kind = "job" /\ After(w, status).job = tx[w].job
  BY <1>1, <1>2, <1>3, <1>5, EndedOK DEF queue
<1>7. /\ keyLock' \in [DeliveryIds -> Workers \cup {None}]
      /\ rowLock' \in [DeliveryIds -> Workers \cup {None}]
      /\ \A v \in Workers \ {w}, e \in DeliveryIds :
           (keyLock[e] = v => keyLock'[e] = v) /\ (rowLock[e] = v => rowLock'[e] = v)
  BY DEF Commit, Release, DeliveryInv, TypeOK
<1>8. TypeOK'
  <2>1. tx' \in [Workers -> TxSet]
    BY <1>2, <1>6 DEF DeliveryInv, TypeOK, TxSet
  <2>2. delivery' \in [DeliveryIds -> [status : {"NONE", "SUCCEEDED", "FAILED"}, attempts : Nat]]
    <3>1. [status |-> status, attempts |-> tx[w].attempts]
            \in [status : {"NONE", "SUCCEEDED", "FAILED"}, attempts : Nat]
      BY <1>1 DEF TxSet
    <3> QED BY <1>1, <3>1 DEF Commit, DeliveryInv, TypeOK
  <2>3. orders' \in [DeliveryIds -> Nat] /\ tries' \in [DeliveryIds -> Nat]
    <3>1. orders[d] + OrderRows(status) \in Nat /\ tries[d] + 1 \in Nat
      BY <1>1 DEF OrderRows, DeliveryInv, TypeOK
    <3> QED BY <1>1, <3>1 DEF Commit, DeliveryInv, TypeOK
  <2> QED BY <1>2, <1>7, <2>1, <2>2, <2>3 DEF DeliveryInv, TypeOK, TxSet, queue
<1>9. /\ orders[d] = 0 /\ delivery[d].status # "SUCCEEDED"
      /\ tx[w].attempts = tries[d] + 1 /\ tries[d] \in Nat
  BY <1>1 DEF WriterOK, DeliveryInv, OneOrder, EveryAttemptCounted, TypeOK
<1>10. OneOrder' /\ EveryAttemptCounted'
  <2> SUFFICES ASSUME NEW e \in DeliveryIds
               PROVE  /\ orders'[e] = IF delivery'[e].status = "SUCCEEDED" THEN 1 ELSE 0
                      /\ delivery'[e].attempts = tries'[e]
    BY DEF OneOrder, EveryAttemptCounted
  <2>1. CASE e = d
    <3> HIDE DEF d, status
    <3> QED BY <1>1, <1>2, <1>3, <1>9, <2>1 DEF OrderRows
  <2>2. CASE e # d
    BY <1>2, <2>2 DEF DeliveryInv, OneOrder, EveryAttemptCounted
  <2> QED BY <2>1, <2>2
<1>11. ASSUME NEW e \in DeliveryIds PROVE RowOK(e)'
  <2>1. CASE e = d
    <3> HIDE DEF d, status
    <3> QED BY <1>1, <1>3, <2>1 DEF RowOK, Known
  <2>2. CASE e # d
    BY <1>2, <2>2 DEF DeliveryInv, RowOK, Known
  <2> QED BY <2>1, <2>2
<1>12. ASSUME NEW v \in Workers PROVE HandlerOK(v)' /\ (Writing(v)' => WriterOK(v)')
  <2>1. CASE v = w
    BY <1>6, <2>1
  <2>2. CASE v # w
    <3>1. tx'[v] = tx[v] /\ HandlerOK(v) /\ (Writing(v) => WriterOK(v))
      BY <1>5, <2>2 DEF DeliveryInv
    <3>2. HandlerOK(v)'
      BY <1>2, <1>4, <1>7, <2>2, <3>1 DEF HandlerOK, Known, queue
    <3>3. Writing(v)' => WriterOK(v)'
      <4> SUFFICES ASSUME Writing(v) PROVE WriterOK(v)'
        BY <3>1 DEF Writing
      <4>1. WriterOK(v) /\ tx[v].d \in DeliveryIds
        BY <3>1 DEF HandlerOK, Writing
      <4>2. tx[v].d # d
        BY <1>1, <2>2, <4>1 DEF WriterOK
      <4> HIDE DEF d
      <4> QED BY <1>2, <1>7, <2>2, <3>1, <4>1, <4>2 DEF WriterOK
    <3> QED BY <3>2, <3>3
  <2> QED BY <2>1, <2>2
<1>13. (\A j \in Jobs : JobOK(j)') /\ RecoveryOK' /\ JobsApart'
  <2>1. (\A j \in Jobs : JobOK(j)') /\ RecoveryOK'
    BY <1>2, <1>4 DEF DeliveryInv, JobOK, RecoveryOK, Known, queue
  <2>2. JobsApart'
    BY <1>5, <1>6 DEF DeliveryInv, JobsApart
  <2> QED BY <2>1, <2>2
<1> QED BY <1>8, <1>10, <1>11, <1>12, <1>13 DEF DeliveryInv

-----------------------------------------------------------------------------
\* What follows a commit, and the recovery job.
LEMMA SendTypes ==
  ASSUME DeliveryInv, NEW d, Known(d), SendRetry(d), UNCHANGED delivery
  PROVE  job' \in [Jobs -> JobSet] /\ recent' \subseteq DeliveryIds /\ \A j \in Jobs : JobOK(j)'
<1>1. CASE UNCHANGED queue
  BY <1>1 DEF DeliveryInv, TypeOK, JobSet, queue, JobOK, Known
<1>2. ASSUME NEW j \in Jobs,
             job' = [job EXCEPT ![j] = [state |-> "created", d |-> d, runs |-> 0]],
             recent' = recent \cup {d}
      PROVE  job' \in [Jobs -> JobSet] /\ recent' \subseteq DeliveryIds
             /\ \A i \in Jobs : JobOK(i)'
  <2>1. [state |-> "created", d |-> d, runs |-> 0] \in JobSet
    BY DeliveryAssumption DEF JobSet, Known
  <2>2. job' \in [Jobs -> JobSet] /\ recent' \subseteq DeliveryIds
    BY <1>2, <2>1 DEF DeliveryInv, TypeOK, JobSet, Known
  <2>3. ASSUME NEW i \in Jobs PROVE JobOK(i)'
    <3>1. CASE i = j
      <4>1. job'[i] = [state |-> "created", d |-> d, runs |-> 0]
        BY <1>2, <3>1 DEF DeliveryInv, TypeOK
      <4> QED BY <4>1, DeliveryAssumption DEF JobOK, Known
    <3>2. CASE i # j
      BY <1>2, <3>2 DEF DeliveryInv, TypeOK, JobOK, Known
    <3> QED BY <3>1, <3>2
  <2> QED BY <2>2, <2>3
<1> QED BY <1>1, <1>2 DEF SendRetry

LEMMA SentActive ==
  ASSUME DeliveryInv, NEW d, SendRetry(d), NEW v \in Workers, tx[v].kind = "job"
  PROVE  job'[tx[v].job].state = "active"
<1>1. tx[v].job \in Jobs /\ job[tx[v].job].state = "active" /\ job \in [Jobs -> JobSet]
  BY DEF DeliveryInv, HandlerOK, TypeOK, JobSet
<1> QED BY <1>1 DEF SendRetry, Free, queue

LEMMA OutcomeTypes ==
  ASSUME DeliveryInv, NEW j \in Jobs, NEW ok \in BOOLEAN, job[j].state # "none",
         job' = [job EXCEPT ![j] = Outcome(j, ok)], UNCHANGED delivery
  PROVE  job' \in [Jobs -> JobSet] /\ \A i \in Jobs : JobOK(i)'
<1>1. job[j] \in JobSet /\ JobOK(j)
  BY DEF DeliveryInv, TypeOK, JobSet
<1>2. Outcome(j, ok) \in JobSet
  BY <1>1, DeliveryAssumption DEF Outcome, JobSet, NoJob
<1>3. job' \in [Jobs -> JobSet]
  BY <1>2 DEF DeliveryInv, TypeOK, JobSet
<1>4. ASSUME NEW i \in Jobs PROVE JobOK(i)'
  <2>1. CASE i = j
    <3>1. job'[i] = Outcome(j, ok)
      BY <2>1 DEF DeliveryInv, TypeOK
    <3> QED BY <1>1, <2>1, <3>1, DeliveryAssumption DEF JobOK, Outcome, NoJob, Known, JobSet
  <2>2. CASE i # j
    BY <2>2 DEF DeliveryInv, TypeOK, JobOK, Known
  <2> QED BY <2>1, <2>2
<1> QED BY <1>3, <1>4

LEMMA EnqueueKeeps ==
  ASSUME DeliveryInv, NEW w \in Workers, EnqueueRetry(w)
  PROVE  DeliveryInv'
<1>1. Known(tx[w].d) /\ UNCHANGED <<rows, locks, recovery>>
  BY DEF EnqueueRetry, DeliveryInv, HandlerOK
<1>2. job' \in [Jobs -> JobSet] /\ recent' \subseteq DeliveryIds /\ \A j \in Jobs : JobOK(j)'
  BY <1>1, SendTypes DEF EnqueueRetry, rows
<1>3. tx' \in [Workers -> TxSet] /\ tx'[w] = Idle /\ \A v \in Workers \ {w} : tx'[v] = tx[v]
  BY DEF EnqueueRetry, DeliveryInv, TypeOK, TxSet, Idle
<1>4. TypeOK'
  BY <1>1, <1>2, <1>3 DEF DeliveryInv, TypeOK, TxSet, JobSet, rows, locks
<1>5. HandlerOK(w)' /\ ~Writing(w)' /\ RecoveryOK' /\ JobsApart'
  BY <1>1, <1>3
     DEF HandlerOK, Writing, Idle, RecoveryOK, JobsApart, Known, DeliveryInv, rows
<1>6. \A v \in Workers : tx[v].kind = "job" => job'[tx[v].job].state = "active"
  BY SentActive DEF EnqueueRetry
<1> QED BY <1>1, <1>2, <1>3, <1>4, <1>5, <1>6, RowsAlone DEF rows, locks

\* A job that is acknowledged exists: its worker is still there.
LEMMA AckKeeps ==
  ASSUME DeliveryInv, NEW w \in Workers, AckJob(w)
  PROVE  DeliveryInv'
<1> DEFINE j == tx[w].job
<1>1. j \in Jobs /\ UNCHANGED <<rows, locks, recent, recovery>>
  BY DEF AckJob, DeliveryInv, HandlerOK
<1>2. job' \in [Jobs -> JobSet] /\ \A i \in Jobs : JobOK(i)'
  <2>1. job[j].state # "none"
    BY DEF AckJob, DeliveryInv, HandlerOK
  <2>2. job' = [job EXCEPT ![j] = Outcome(j, tx[w].status = "SUCCEEDED")] /\ delivery' = delivery
    BY DEF AckJob, rows
  <2> HIDE DEF j
  <2> QED BY <1>1, <2>1, <2>2, OutcomeTypes
<1>3. tx' \in [Workers -> TxSet] /\ tx'[w] = Idle /\ \A v \in Workers \ {w} : tx'[v] = tx[v]
  BY DEF AckJob, DeliveryInv, TypeOK, TxSet, Idle
<1>4. TypeOK'
  BY <1>1, <1>2, <1>3 DEF DeliveryInv, TypeOK, TxSet, JobSet, rows, locks
<1>5. HandlerOK(w)' /\ ~Writing(w)' /\ RecoveryOK' /\ JobsApart'
  BY <1>1, <1>3
     DEF HandlerOK, Writing, Idle, RecoveryOK, JobsApart, Known, DeliveryInv, rows
<1>6. \A v \in Workers \ {w} : tx[v].kind = "job" => job'[tx[v].job].state = "active"
  BY DEF AckJob, DeliveryInv, HandlerOK, JobsApart, TypeOK
<1> QED BY <1>1, <1>2, <1>3, <1>4, <1>5, <1>6, RowsAlone DEF rows, locks

LEMMA ExpireKeeps ==
  ASSUME DeliveryInv, NEW j \in Jobs, ExpireJob(j)
  PROVE  DeliveryInv'
<1>1. job' \in [Jobs -> JobSet] /\ \A i \in Jobs : JobOK(i)'
  BY OutcomeTypes DEF ExpireJob, rows
<1>2. TypeOK' /\ RecoveryOK'
  BY <1>1 DEF ExpireJob, DeliveryInv, TypeOK, JobSet, RecoveryOK, Known, rows, locks
<1>3. \A v \in Workers : tx[v].kind = "job" => job'[tx[v].job].state = "active"
  BY DEF ExpireJob, DeliveryInv, HandlerOK, TypeOK
<1>4. JobsApart'
  BY DEF ExpireJob, DeliveryInv, JobsApart
<1> QED BY <1>1, <1>2, <1>3, <1>4, DeliveryAssumption, RowsAlone DEF ExpireJob, rows, locks

LEMMA CrashKeeps ==
  ASSUME DeliveryInv, NEW w \in Workers, Crash(w)
  PROVE  DeliveryInv'
<1>1. Idle \in TxSet /\ tx' = [tx EXCEPT ![w] = Idle] /\ tx'[w] = Idle
  BY DEF Crash, TxSet, Idle, DeliveryInv, TypeOK
<1>2. /\ keyLock' \in [DeliveryIds -> Workers \cup {None}]
      /\ rowLock' \in [DeliveryIds -> Workers \cup {None}]
      /\ \A v \in Workers \ {w}, e \in DeliveryIds :
           (keyLock[e] = v => keyLock'[e] = v) /\ (rowLock[e] = v => rowLock'[e] = v)
  BY DEF Crash, Release, DeliveryInv, TypeOK
<1>3. TypeOK'
  BY <1>1, <1>2 DEF Crash, DeliveryInv, TypeOK, TxSet, rows, queue
<1>4. HandlerOK(w)' /\ ~Writing(w)'
  BY <1>1 DEF HandlerOK, Writing, Idle
<1>5. Idle.kind # "job"
  BY DEF Idle
<1> QED BY <1>1, <1>2, <1>3, <1>4, <1>5, HandlerStep DEF Crash, rows

LEMMA RecoveryKeeps ==
  ASSUME DeliveryInv, Recovery \/ CrashRecovery
  PROVE  DeliveryInv'
<1>1. UNCHANGED <<rows, locks, tx>>
  BY DEF Recovery, CrashRecovery, StartRecovery, CheckPending, RecoverDelivery, EndRecovery
<1> JobsApart'
  BY <1>1 DEF DeliveryInv, JobsApart
<1>2. CASE RecoverDelivery
  <2>1. Known(recovery.next)
    BY <1>2 DEF RecoverDelivery, DeliveryInv, RecoveryOK
  <2>2. job' \in [Jobs -> JobSet] /\ recent' \subseteq DeliveryIds /\ \A j \in Jobs : JobOK(j)'
    BY <1>1, <1>2, <2>1, SendTypes DEF RecoverDelivery, rows
  <2>3. /\ recovery' \in [on : BOOLEAN, todo : SUBSET DeliveryIds, next : DeliveryIds \cup {None}]
        /\ recovery'.todo = recovery.todo /\ recovery'.next = None
    BY <1>2 DEF RecoverDelivery, DeliveryInv, TypeOK
  <2>4. TypeOK' /\ RecoveryOK'
    BY <1>1, <2>2, <2>3 DEF DeliveryInv, TypeOK, JobSet, RecoveryOK, Known, rows, locks
  <2>5. \A v \in Workers : tx[v].kind = "job" => job'[tx[v].job].state = "active"
    BY <1>2, SentActive DEF RecoverDelivery
  <2> QED BY <1>1, <2>2, <2>4, <2>5, DeliveryAssumption, RowsAlone DEF rows, locks
<1>3. CASE ~RecoverDelivery
  <2>1. UNCHANGED queue
    BY <1>3 DEF Recovery, CrashRecovery, StartRecovery, CheckPending, EndRecovery
  <2>2. /\ recovery' \in [on : BOOLEAN, todo : SUBSET DeliveryIds, next : DeliveryIds \cup {None}]
        /\ \A d \in recovery'.todo : Known(d)
        /\ recovery'.next # None => Known(recovery'.next)
    <3>1. CASE StartRecovery
      BY <3>1 DEF StartRecovery, NoScan, NeedsRecovery, Known
    <3>2. ASSUME NEW d \in DeliveryIds, CheckPending(d)
          PROVE  /\ recovery' \in [on : BOOLEAN, todo : SUBSET DeliveryIds,
                                   next : DeliveryIds \cup {None}]
                 /\ \A e \in recovery'.todo : Known(e)
                 /\ recovery'.next # None => Known(recovery'.next)
      BY <3>2 DEF CheckPending, DeliveryInv, TypeOK, RecoveryOK
    <3>3. CASE EndRecovery \/ CrashRecovery
      <4>1. recovery' = [on |-> FALSE, todo |-> {}, next |-> None]
        BY <3>3 DEF EndRecovery, CrashRecovery, NoScan
      <4> QED BY <4>1
    <3> QED BY <1>3, <3>1, <3>2, <3>3 DEF Recovery
  <2>3. TypeOK' /\ RecoveryOK' /\ \A j \in Jobs : JobOK(j)'
    BY <1>1, <2>1, <2>2 DEF DeliveryInv, TypeOK, RecoveryOK, JobOK, Known, rows, locks, queue
  <2>4. \A v \in Workers : tx[v].kind = "job" => job'[tx[v].job].state = "active"
    BY <2>1 DEF DeliveryInv, HandlerOK, queue
  <2> QED BY <1>1, <2>3, <2>4, DeliveryAssumption, RowsAlone DEF rows, locks
<1> QED BY <1>2, <1>3

LEMMA QueueKeeps ==
  ASSUME DeliveryInv, NEW d \in DeliveryIds, SlotEnds(d) \/ ExpireReply(d)
  PROVE  DeliveryInv'
<1>1. TypeOK'
  BY DEF SlotEnds, ExpireReply, DeliveryInv, TypeOK, rows, locks, queue
<1>2. RecoveryOK' /\ \A j \in Jobs : JobOK(j)'
  BY DEF SlotEnds, ExpireReply, DeliveryInv, RecoveryOK, JobOK, Known, rows, queue
<1>3. /\ UNCHANGED <<delivery, orders, tries, locks, tx>>
      /\ \A e \in DeliveryIds : reply'[e] \in {reply[e], "NONE"}
  BY DEF SlotEnds, ExpireReply, rows, DeliveryInv, TypeOK
<1>4. /\ JobsApart'
      /\ \A v \in Workers : tx[v].kind = "job" => job'[tx[v].job].state = "active"
  BY <1>3 DEF SlotEnds, ExpireReply, DeliveryInv, HandlerOK, JobsApart, queue
<1> QED BY <1>1, <1>2, <1>3, <1>4, DeliveryAssumption, RowsAlone DEF locks

LEMMA StepKeeps == DeliveryInv /\ [Next]_vars => DeliveryInv'
<1> SUFFICES ASSUME DeliveryInv, [Next]_vars PROVE DeliveryInv'
  OBVIOUS
<1>1. ASSUME NEW w \in Workers, Transaction(w) PROVE DeliveryInv'
  BY <1>1, ReplayKeeps, NewKeeps, LockKeeps, NothingKeeps, StartKeeps, AttemptKeeps,
     CommitKeeps, EnqueueKeeps, AckKeeps DEF Transaction
<1>2. CASE UNCHANGED vars
  <2>1. UNCHANGED <<rows, locks, tx, queue, recovery>>
    BY <1>2 DEF vars
  <2>2. TypeOK' /\ RecoveryOK' /\ \A j \in Jobs : JobOK(j)'
    BY <2>1 DEF DeliveryInv, TypeOK, RecoveryOK, JobOK, Known, rows, locks, queue
  <2>3. /\ JobsApart'
        /\ \A v \in Workers : tx[v].kind = "job" => job'[tx[v].job].state = "active"
    BY <2>1 DEF DeliveryInv, HandlerOK, JobsApart, queue
  <2> QED BY <2>1, <2>2, <2>3, DeliveryAssumption, RowsAlone DEF rows, locks
<1> QED
  BY <1>1, <1>2, RequestKeeps, FetchKeeps, CrashKeeps, RecoveryKeeps, QueueKeeps, ExpireKeeps
     DEF Next

-----------------------------------------------------------------------------
THEOREM DeliveryInvariance == Spec => []DeliveryInv
<1> QED BY InitInvariant, StepKeeps, PTL DEF Spec

\* However webhooks, retries and jobs overlap or are lost, a delivery has one
\* order once it has succeeded and none before (integration-delivery.service.ts).
THEOREM OneOrderEach == Spec => []OneOrder
<1>1. DeliveryInv => OneOrder
  BY DEF DeliveryInv
<1> QED BY <1>1, DeliveryInvariance, PTL

\* The attempt counter of a delivery is the number of committed attempts.
THEOREM AttemptsCounted == Spec => []EveryAttemptCounted
<1>1. DeliveryInv => EveryAttemptCounted
  BY DEF DeliveryInv
<1> QED BY <1>1, DeliveryInvariance, PTL

\* No job takes a delivery beyond the automatic limit.
THEOREM JobsWithinLimit == Spec => AutomaticLimit
<1>1. DeliveryInv =>
        \A w \in Workers :
          tx[w].kind = "job" /\ tx[w].pc = "commit" /\ Commit(w) =>
            delivery'[tx[w].d].attempts <= MaxAttempts
  <2> SUFFICES ASSUME DeliveryInv, NEW w \in Workers, tx[w].kind = "job",
                      tx[w].pc = "commit", Commit(w)
               PROVE  delivery'[tx[w].d].attempts <= MaxAttempts
    OBVIOUS
  <2>1. WriterOK(w) /\ HandlerOK(w)
    BY DEF DeliveryInv, Writing
  <2>2. delivery'[tx[w].d].attempts = tx[w].attempts
    BY <2>1 DEF Commit, HandlerOK, DeliveryInv, TypeOK
  <2> QED BY <2>1, <2>2 DEF WriterOK
<1> QED BY <1>1, DeliveryInvariance, PTL DEF AutomaticLimit

-----------------------------------------------------------------------------
(* What is written.  Induction over a number is by the least one that fails.   *)

LEMMA Least ==
  ASSUME NEW S, S \subseteq Nat, S # {} PROVE \E m \in S : \A n \in S : m <= n
<1> DEFINE R == OpToRel(<, Nat)
<1>1. \A m \in S, n \in S : <<n, m>> \in R <=> n < m
  BY DEF OpToRel
<1>2. IsWellFoundedOn(R, Nat)
  BY NatLessThanWellFounded
<1> HIDE DEF R
<1>3. PICK m \in S : \A n \in S : ~ (<<n, m>> \in R)
  BY <1>2, WFMin
<1>4. ASSUME NEW n \in S PROVE m <= n
  <2>1. ~(n < m) /\ n \in Nat /\ m \in Nat
    BY <1>1, <1>3
  <2> QED BY <2>1
<1> QED BY <1>4

LEMMA PlusOne == \A a, b \in Nat : a + (b + 1) = a + b + 1
OBVIOUS

\* A set of numbers with 0 and every successor below n has n.
LEMMA CountUp ==
  ASSUME NEW n \in Nat, NEW S, 0 \in S, \A i \in 0 .. n - 1 : i \in S => i + 1 \in S
  PROVE  n \in S
<1> SUFFICES ASSUME n \notin S PROVE FALSE
  OBVIOUS
<1> DEFINE U == {i \in 0 .. n : i \notin S}
<1>0. U \subseteq Nat /\ U # {}
  OBVIOUS
<1> HIDE DEF U
<1>1. PICK m \in U : \A i \in U : m <= i
  BY <1>0, Least
<1> USE DEF U
<1>2. m \in 1 .. n /\ m - 1 \notin U
  BY <1>1
<1>3. m - 1 \in S /\ m - 1 \in 0 .. n - 1
  BY <1>2
<1> QED BY <1>1, <1>2, <1>3

LEMMA Positive ==
  ASSUME NEW x \in Nat, NEW y \in Nat, NEW z, z = x + y + 1 PROVE z >= 1 /\ z # 0
OBVIOUS

LEMMA Room ==
  ASSUME NEW x \in Nat, NEW y \in Nat, NEW z \in Nat, x + y <= z PROVE x <= z
OBVIOUS

Cat(s, t) == s \o t

Concatenates(c, s, t) ==
  /\ Len(c) = Len(s) + Len(t)
  /\ \A i \in 1 .. Len(s) : c[i] = s[i]
  /\ \A i \in 1 .. Len(t) : c[Len(s) + i] = t[i]

\* FlattenSeq(parts) is the last of the texts that add one part after another.
Adds(upTo, parts, n) ==
  /\ n > 0 => upTo[1] = parts[1]
  /\ \A i \in 2 .. n : upTo[i] = Cat(upTo[i - 1], parts[i])

LEMMA StillFits ==
  ASSUME NEW a \in Nat, NEW b \in Nat, NEW c \in Nat, NEW d \in Nat, NEW e, a + b <= c, e = c + d
  PROVE  a + b <= e
OBVIOUS

\* There are such texts.
LEMMA AddsUp ==
  ASSUME NEW Texts, \A s, t \in Texts : Cat(s, t) \in Texts,
         NEW N \in Nat \ {0}, NEW parts \in [1 .. N -> Texts]
  PROVE  \E upTo \in [1 .. N -> Texts] : Adds(upTo, parts, N)
<1> DEFINE S == {n \in 0 .. N : \E f \in [1 .. n -> Texts] : Adds(f, parts, n)}
<1>1. 0 \in S
  <2> DEFINE f == [i \in 1 .. 0 |-> parts[1]]
  <2>1. f \in [1 .. 0 -> Texts] /\ Adds(f, parts, 0)
    BY DEF Adds
  <2>2. \E g \in [1 .. 0 -> Texts] : Adds(g, parts, 0)
    BY <2>1, Zenon
  <2>3. 0 \in 0 .. N
    OBVIOUS
  <2> QED BY <2>2, <2>3, Zenon
<1>2. ASSUME NEW n \in 0 .. N - 1, n \in S PROVE n + 1 \in S
  <2>1. PICK f \in [1 .. n -> Texts] : Adds(f, parts, n)
    BY <1>2
  <2> DEFINE new == IF n = 0 THEN parts[1] ELSE Cat(f[n], parts[n + 1])
             g == [i \in 1 .. n + 1 |-> IF i <= n THEN f[i] ELSE new]
  <2>2. new \in Texts
    <3>1. parts[1] \in Texts /\ parts[n + 1] \in Texts /\ (n # 0 => f[n] \in Texts)
      OBVIOUS
    <3> QED BY <3>1
  <2> HIDE DEF new
  <2>3. g \in [1 .. n + 1 -> Texts]
    BY <2>2
  <2>4. \A i \in 1 .. n : g[i] = f[i]
    OBVIOUS
  <2>5. g[n + 1] = new
    OBVIOUS
  <2> HIDE DEF g
  <2>6. Adds(g, parts, n + 1)
    <3>1. g[1] = parts[1]
      <4>1. CASE n = 0
        BY <2>5, <4>1 DEF new
      <4>2. CASE n # 0
        <5>1. 1 \in 1 .. n /\ n > 0
          BY <4>2
        <5> QED BY <2>1, <2>4, <5>1 DEF Adds
      <4> QED BY <4>1, <4>2
    <3>2. ASSUME NEW i \in 2 .. n + 1 PROVE g[i] = Cat(g[i - 1], parts[i])
      <4>1. CASE i = n + 1
        <5>1. n # 0 /\ n \in 1 .. n /\ i - 1 = n
          BY <4>1
        <5> QED BY <2>4, <2>5, <4>1, <5>1 DEF new
      <4>2. CASE i # n + 1
        <5>1. i \in 2 .. n /\ i \in 1 .. n /\ i - 1 \in 1 .. n
          BY <4>2
        <5> QED BY <2>1, <2>4, <5>1 DEF Adds
      <4> QED BY <4>1, <4>2
    <3> QED BY <3>1, <3>2 DEF Adds
  <2>7. n + 1 \in 0 .. N
    OBVIOUS
  <2> QED BY <2>3, <2>6, <2>7
<1>3. N \in S
  <2> HIDE DEF S
  <2> QED BY <1>1, <1>2, CountUp
<1> QED BY <1>3

LEMMA FlattenIs ==
  ASSUME NEW Texts, \A s, t \in Texts : Cat(s, t) \in Texts,
         NEW parts, NEW N \in Nat \ {0}, N = Len(parts), parts \in [1 .. N -> Texts]
  PROVE  \E upTo \in [1 .. N -> Texts] : Adds(upTo, parts, N) /\ FlattenSeq(parts) = upTo[N]
<1> DEFINE flatten[i \in 1 .. N] == IF i = 1 THEN parts[i] ELSE Cat(flatten[i - 1], parts[i])
<1>1. FlattenSeq(parts) = flatten[N]
  <2>1. Len(parts) # 0
    OBVIOUS
  <2> QED BY <2>1, Zenon DEF FlattenSeq, Cat
<1>2. PICK f \in [1 .. N -> Texts] : Adds(f, parts, N)
  BY AddsUp
<1>3. f = [i \in 1 .. N |-> IF i = 1 THEN parts[i] ELSE Cat(f[i - 1], parts[i])]
  <2> SUFFICES ASSUME NEW i \in 1 .. N
               PROVE f[i] = IF i = 1 THEN parts[i] ELSE Cat(f[i - 1], parts[i])
    BY <1>2
  <2>1. i # 1 => i \in 2 .. N
    OBVIOUS
  <2> QED BY <1>2, <2>1 DEF Adds
<1>4. flatten = [i \in 1 .. N |-> IF i = 1 THEN parts[i] ELSE Cat(flatten[i - 1], parts[i])]
  BY <1>3
<1> HIDE DEF flatten
<1>5. flatten[1] = parts[1]
  BY <1>4
<1>6. ASSUME NEW i \in 2 .. N PROVE flatten[i] = Cat(flatten[i - 1], parts[i])
  <2>1. i \in 1 .. N /\ i # 1
    OBVIOUS
  <2> QED BY <1>4, <2>1
<1> DEFINE T == {n \in 0 .. N : \A i \in 1 .. n : flatten[i] \in Texts}
<1>7. N \in T
  <2>1. 0 \in T
    OBVIOUS
  <2>2. ASSUME NEW n \in 0 .. N - 1, n \in T PROVE n + 1 \in T
    <3>1. flatten[n + 1] \in Texts
      <4>1. CASE n = 0
        BY <1>5, <4>1
      <4>2. CASE n # 0
        <5>1. n + 1 \in 2 .. N /\ n \in 1 .. n /\ n + 1 - 1 = n /\ n + 1 \in 1 .. N
          BY <4>2
        <5>2. flatten[n + 1] = Cat(flatten[n], parts[n + 1]) /\ flatten[n] \in Texts
          BY <1>6, <2>2, <5>1
        <5> QED BY <5>1, <5>2
      <4> QED BY <4>1, <4>2
    <3>2. \A i \in 1 .. n + 1 : i \in 1 .. n \/ i = n + 1
      OBVIOUS
    <3> QED BY <2>2, <3>1, <3>2
  <2> HIDE DEF T
  <2> QED BY <2>1, <2>2, CountUp
<1>8. flatten \in [1 .. N -> Texts]
  BY <1>4, <1>7
<1>9. Adds(flatten, parts, N)
  BY <1>5, <1>6 DEF Adds
<1> QED BY <1>1, <1>8, <1>9

\* Where the parts of a text begin, and that they are there.
LayoutOf(text, parts, N, at) ==
  /\ at[1] = 0 /\ Len(text) = at[N] + Len(parts[N])
  /\ \A i \in 1 .. N - 1 : at[i + 1] = at[i] + Len(parts[i])
  /\ \A i \in 1 .. N : at[i] + Len(parts[i]) <= Len(text)
  /\ \A i \in 1 .. N : \A j \in 1 .. Len(parts[i]) : text[at[i] + j] = parts[i][j]

\* So the parts are in the text one after the other.
LEMMA FlattenLayout ==
  ASSUME NEW Texts,
         \A s \in Texts : Len(s) \in Nat,
         \A s, t \in Texts : Cat(s, t) \in Texts /\ Concatenates(Cat(s, t), s, t),
         NEW parts, NEW N \in Nat \ {0}, N = Len(parts), parts \in [1 .. N -> Texts]
  PROVE  /\ FlattenSeq(parts) \in Texts
         /\ \E at \in [1 .. N -> Nat] : LayoutOf(FlattenSeq(parts), parts, N, at)
<1>1. PICK f \in [1 .. N -> Texts] : Adds(f, parts, N) /\ FlattenSeq(parts) = f[N]
  <2>1. \A s, t \in Texts : Cat(s, t) \in Texts
    OBVIOUS
  <2> QED BY <2>1, FlattenIs, ZenonT(40)
<1> DEFINE at == [i \in 1 .. N |-> IF i = 1 THEN 0 ELSE Len(f[i - 1])]
<1>2. at \in [1 .. N -> Nat] /\ at[1] = 0
  OBVIOUS
<1>3. ASSUME NEW i \in 2 .. N PROVE at[i] = Len(f[i - 1]) /\ i - 1 \in 1 .. N
  <2>1. i \in 1 .. N /\ i # 1
    OBVIOUS
  <2> QED BY <2>1
<1> HIDE DEF at
<1>4. f[1] = parts[1] /\ \A i \in 2 .. N : f[i] = Cat(f[i - 1], parts[i])
  BY <1>1 DEF Adds
<1>5. ASSUME NEW i \in 1 .. N PROVE Len(f[i]) = at[i] + Len(parts[i])
  <2>1. CASE i = 1
    BY <1>2, <1>4, <2>1
  <2>2. CASE i # 1
    <3>1. i \in 2 .. N /\ i - 1 \in 1 .. N
      BY <2>2
    <3>2. f[i] = Cat(f[i - 1], parts[i]) /\ f[i - 1] \in Texts /\ parts[i] \in Texts
      BY <1>4, <3>1
    <3>3. Len(Cat(f[i - 1], parts[i])) = Len(f[i - 1]) + Len(parts[i])
      BY <3>2 DEF Concatenates
    <3> QED BY <1>3, <3>1, <3>2, <3>3
  <2> QED BY <2>1, <2>2
<1>6. ASSUME NEW i \in 1 .. N - 1 PROVE at[i + 1] = at[i] + Len(parts[i]) /\ at[i + 1] = Len(f[i])
  <2>1. i + 1 \in 2 .. N /\ i + 1 - 1 = i /\ i \in 1 .. N
    OBVIOUS
  <2> QED BY <1>3, <1>5, <2>1
<1> DEFINE Holds(n) == \A i \in 1 .. n : /\ at[i] + Len(parts[i]) <= Len(f[n])
                                        /\ \A j \in 1 .. Len(parts[i]) : f[n][at[i] + j] = parts[i][j]
           S == {n \in 0 .. N : n > 0 => Holds(n)}
<1>7. N \in S
  <2>1. 0 \in S
    OBVIOUS
  <2>2. ASSUME NEW n \in 0 .. N - 1, n \in S PROVE n + 1 \in S
    <3>1. CASE n = 0
      <4>1. Len(f[1]) = Len(parts[1]) /\ Len(parts[1]) \in Nat
        BY <1>4
      <4>2. Holds(1)
        BY <1>2, <1>4, <4>1
      <4> QED BY <3>1, <4>2
    <3>2. CASE n # 0
      <4>1. n \in 1 .. N /\ n \in 1 .. N - 1 /\ n + 1 \in 1 .. N /\ n + 1 \in 2 .. N /\ n + 1 - 1 = n
        BY <3>2
      <4>2. f[n + 1] = Cat(f[n], parts[n + 1]) /\ at[n + 1] = Len(f[n])
        BY <1>4, <1>6, <4>1
      <4>3. f[n] \in Texts /\ parts[n + 1] \in Texts /\ Len(f[n]) \in Nat /\ Len(parts[n + 1]) \in Nat
        BY <4>1
      <4>4. Concatenates(f[n + 1], f[n], parts[n + 1])
        BY <4>2, <4>3
      <4>5. Len(f[n + 1]) = Len(f[n]) + Len(parts[n + 1])
        BY <4>4 DEF Concatenates
      <4>6. /\ \A k \in 1 .. Len(f[n]) : f[n + 1][k] = f[n][k]
            /\ \A k \in 1 .. Len(parts[n + 1]) : f[n + 1][Len(f[n]) + k] = parts[n + 1][k]
        BY <4>4 DEF Concatenates
      <4>7. ASSUME NEW i \in 1 .. n + 1
            PROVE  /\ at[i] + Len(parts[i]) <= Len(f[n + 1])
                   /\ \A j \in 1 .. Len(parts[i]) : f[n + 1][at[i] + j] = parts[i][j]
        <5>1. CASE i = n + 1
          <6>1. \A k \in 1 .. Len(parts[i]) : f[n + 1][at[i] + k] = parts[i][k]
            BY <4>2, <4>6, <5>1
          <6>2. at[i] + Len(parts[i]) = Len(f[n + 1])
            BY <4>2, <4>5, <5>1
          <6>3. Len(f[n + 1]) \in Nat
            BY <4>1
          <6> QED BY <6>1, <6>2, <6>3
        <5>2. CASE i # n + 1
          <6>1. i \in 1 .. n /\ i \in 1 .. N
            BY <5>2
          <6>2. at[i] + Len(parts[i]) <= Len(f[n])
            BY <2>2, <3>2, <6>1
          <6>3. \A j \in 1 .. Len(parts[i]) : f[n][at[i] + j] = parts[i][j]
            BY <2>2, <3>2, <6>1
          <6>4. at[i] \in Nat /\ Len(parts[i]) \in Nat
            <7>1. parts[i] \in Texts
              BY <6>1
            <7> QED BY <1>2, <6>1, <7>1
          <6>5. ASSUME NEW j \in 1 .. Len(parts[i]) PROVE f[n + 1][at[i] + j] = parts[i][j]
            <7>1. at[i] + j \in 1 .. Len(f[n])
              BY <4>3, <6>2, <6>4, SMTT(30)
            <7> QED BY <4>6, <6>3, <7>1
          <6>6. at[i] + Len(parts[i]) <= Len(f[n + 1])
            BY <4>3, <4>5, <6>2, <6>4, StillFits
          <6> QED BY <6>5, <6>6
        <5> QED BY <5>1, <5>2
      <4> QED BY <4>7
    <3> QED BY <3>1, <3>2
  <2> HIDE DEF S
  <2> QED BY <2>1, <2>2, CountUp
<1>8. Holds(N)
  BY <1>7
<1>9. Len(f[N]) = at[N] + Len(parts[N]) /\ f[N] \in Texts
  <2>1. N \in 1 .. N
    OBVIOUS
  <2> QED BY <1>5, <2>1
<1> HIDE DEF Holds
<1>10. LayoutOf(f[N], parts, N, at)
  BY <1>2, <1>6, <1>8, <1>9 DEF LayoutOf, Holds
<1> QED BY <1>1, <1>2, <1>9, <1>10

LEMMA CatIs ==
  ASSUME NEW X
  PROVE  /\ \A s \in Seq(X) : Len(s) \in Nat
         /\ \A s, t \in Seq(X) : Cat(s, t) \in Seq(X) /\ Concatenates(Cat(s, t), s, t)
<1> SUFFICES ASSUME NEW s \in Seq(X), NEW t \in Seq(X)
             PROVE Cat(s, t) \in Seq(X) /\ Concatenates(Cat(s, t), s, t)
  OBVIOUS
<1>1. /\ s \o t \in Seq(X) /\ Len(s \o t) = Len(s) + Len(t)
      /\ \A i \in 1 .. Len(s) + Len(t) : (s \o t)[i] = IF i <= Len(s) THEN s[i] ELSE t[i - Len(s)]
  BY ConcatProperties
<1> DEFINE c == s \o t
<1> HIDE DEF c
<1>2. Len(s) \in Nat /\ Len(t) \in Nat /\ Len(c) = Len(s) + Len(t)
  BY <1>1 DEF c
<1>3. \A i \in 1 .. Len(s) + Len(t) : c[i] = IF i <= Len(s) THEN s[i] ELSE t[i - Len(s)]
  BY <1>1 DEF c
<1>4. ASSUME NEW i \in 1 .. Len(s) PROVE c[i] = s[i]
  BY <1>2, <1>3
<1>5. ASSUME NEW i \in 1 .. Len(t) PROVE c[Len(s) + i] = t[i]
  <2>1. Len(s) + i \in 1 .. Len(s) + Len(t) /\ ~(Len(s) + i <= Len(s)) /\ Len(s) + i - Len(s) = i
    BY <1>2
  <2> QED BY <1>3, <2>1
<1> QED BY <1>1, <1>2, <1>4, <1>5 DEF Cat, Concatenates, c

\* The texts of a line or of a file, with a symbol between each two.
Joined(text, codes, N, separator, at) ==
  /\ at \in [1 .. N -> Nat] /\ at[1] = 0 /\ Len(text) = at[N] + Len(codes[N])
  /\ \A i \in 1 .. N - 1 : at[i + 1] = at[i] + Len(codes[i]) + 1 /\ text[at[i + 1]] = separator
  /\ \A i \in 1 .. N : at[i] + Len(codes[i]) <= Len(text)
  /\ \A i \in 1 .. N : \A j \in 1 .. Len(codes[i]) : text[at[i] + j] = codes[i][j]

\* And so they are with a separator between each two.
LEMMA JoinLayout ==
  ASSUME NEW X, NEW separator \in X,
         NEW codes, NEW N \in Nat \ {0}, codes \in [1 .. N -> Seq(X)]
  PROVE  /\ Join(codes, <<separator>>) \in Seq(X)
         /\ \E at : Joined(Join(codes, <<separator>>), codes, N, separator, at)
<1> DEFINE Texts == Seq(X)
           parts == [i \in DOMAIN codes |-> IF i = 1 THEN codes[i] ELSE <<separator>> \o codes[i]]
           text == FlattenSeq(parts)
<1>1. /\ \A s \in Texts : Len(s) \in Nat
      /\ \A s, t \in Texts : Cat(s, t) \in Texts /\ Concatenates(Cat(s, t), s, t)
  BY CatIs
<1>2. /\ <<separator>> \in Texts /\ Len(<<separator>>) = 1 /\ <<separator>>[1] = separator
      /\ DOMAIN codes = 1 .. N
  OBVIOUS
<1>3. parts = [i \in 1 .. N |-> IF i = 1 THEN codes[i] ELSE Cat(<<separator>>, codes[i])]
  BY <1>2, Zenon DEF Cat
<1>4. text = Join(codes, <<separator>>)
  BY Zenon DEF Join
<1> HIDE DEF parts, text
<1> DEFINE sep == <<separator>>
<1> HIDE DEF sep
<1>5. parts \in [1 .. N -> Texts]
  <2>1. \A i \in 1 .. N : codes[i] \in Texts /\ Cat(<<separator>>, codes[i]) \in Texts
    BY <1>1, <1>2
  <2> HIDE DEF Texts
  <2> QED BY <1>3, <2>1
<1>6. N = Len(parts)
  <2>1. parts \in Seq(Texts)
    BY <1>5
  <2> QED BY <1>5, <2>1
<1>7. parts[1] = codes[1] /\ \A i \in 2 .. N : parts[i] = Cat(<<separator>>, codes[i])
  <2>1. \A i \in 2 .. N : i \in 1 .. N /\ i # 1
    OBVIOUS
  <2>2. 1 \in 1 .. N
    OBVIOUS
  <2> QED BY <1>3, <2>1, <2>2, Zenon
<1>8. \A i \in 1 .. N : codes[i] \in Texts
  OBVIOUS
<1> HIDE DEF Texts
<1>9. PICK off \in [1 .. N -> Nat] : text \in Texts /\ LayoutOf(text, parts, N, off)
  BY <1>1, <1>5, <1>6, FlattenLayout DEF text
<1>10. ASSUME NEW i \in 2 .. N
       PROVE  /\ Len(parts[i]) = 1 + Len(codes[i]) /\ parts[i][1] = separator
              /\ \A j \in 1 .. Len(codes[i]) : parts[i][1 + j] = codes[i][j]
  <2>1. i \in 1 .. N /\ codes[i] \in Texts
    BY <1>8
  <2>2. Concatenates(parts[i], sep, codes[i])
    BY <1>1, <1>2, <1>7, <2>1 DEF sep
  <2>3. Len(sep) = 1 /\ sep[1] = separator
    BY <1>2 DEF sep
  <2> QED BY <2>2, <2>3 DEF Concatenates
<1> DEFINE at == [i \in 1 .. N |-> IF i = 1 THEN 0 ELSE off[i] + 1]
<1>11. at \in [1 .. N -> Nat] /\ at[1] = 0 /\ off[1] = 0
  BY <1>9 DEF LayoutOf
<1>12. \A i \in 2 .. N : at[i] = off[i] + 1
  OBVIOUS
<1> HIDE DEF at
<1>13. ASSUME NEW i \in 1 .. N
       PROVE  /\ at[i] + Len(codes[i]) = off[i] + Len(parts[i])
              /\ \A j \in 1 .. Len(codes[i]) : text[at[i] + j] = codes[i][j]
  <2>1. Len(codes[i]) \in Nat /\ off[i] \in Nat
    BY <1>1, <1>8
  <2>2. \A j \in 1 .. Len(parts[i]) : text[off[i] + j] = parts[i][j]
    BY <1>9 DEF LayoutOf
  <2>3. CASE i = 1
    BY <1>7, <1>11, <2>1, <2>2, <2>3
  <2>4. CASE i # 1
    <3>1. i \in 2 .. N /\ at[i] = off[i] + 1
      BY <1>12, <2>4
    <3>2. Len(parts[i]) = 1 + Len(codes[i]) /\ \A j \in 1 .. Len(codes[i]) : parts[i][1 + j] = codes[i][j]
      BY <1>10, <3>1
    <3>3. ASSUME NEW j \in 1 .. Len(codes[i]) PROVE text[at[i] + j] = codes[i][j]
      <4>1. 1 + j \in 1 .. Len(parts[i]) /\ off[i] + (1 + j) = at[i] + j
        BY <2>1, <3>1, <3>2
      <4>2. text[off[i] + (1 + j)] = parts[i][1 + j]
        BY <2>2, <4>1
      <4> QED BY <3>2, <4>1, <4>2
    <3>4. at[i] + Len(codes[i]) = off[i] + Len(parts[i])
      BY <2>1, <3>1, <3>2
    <3> QED BY <3>3, <3>4
  <2> QED BY <2>3, <2>4
<1>14. ASSUME NEW i \in 1 .. N - 1
       PROVE at[i + 1] = at[i] + Len(codes[i]) + 1 /\ text[at[i + 1]] = separator
  <2>1. i \in 1 .. N /\ i + 1 \in 2 .. N /\ i + 1 \in 1 .. N
    OBVIOUS
  <2>2. off[i + 1] = off[i] + Len(parts[i]) /\ at[i + 1] = off[i + 1] + 1
    BY <1>9, <1>12, <2>1 DEF LayoutOf
  <2>3. at[i] + Len(codes[i]) = off[i] + Len(parts[i])
    BY <1>13, <2>1
  <2>4. 1 \in 1 .. Len(parts[i + 1])
    <3>1. Len(parts[i + 1]) = 1 + Len(codes[i + 1]) /\ Len(codes[i + 1]) \in Nat
      BY <1>1, <1>8, <1>10, <2>1
    <3> QED BY <3>1
  <2>5. text[off[i + 1] + 1] = parts[i + 1][1] /\ parts[i + 1][1] = separator
    BY <1>9, <1>10, <2>1, <2>4 DEF LayoutOf
  <2> QED BY <2>2, <2>3, <2>5
<1>15. \A i \in 1 .. N : off[i] + Len(parts[i]) <= Len(text)
  BY <1>9 DEF LayoutOf
<1>16. Len(text) = off[N] + Len(parts[N]) /\ N \in 1 .. N
  BY <1>9 DEF LayoutOf
<1>17. Joined(text, codes, N, separator, at)
  BY <1>11, <1>13, <1>14, <1>15, <1>16 DEF Joined
<1> QED BY <1>4, <1>9, <1>17 DEF Texts


-----------------------------------------------------------------------------
(* A cell is as it is, or quoted.                                           *)

Words == {"sku", "name", "sale_price", "Sale Price", "reorder_point", "description", "is_active"}
Chars == Symbols \cup Words

LEMMA NoReturns == \A symbol \in Chars : symbol \notin {Return, ReturnNewLine}
<1>1. ASSUME NEW symbol \in Chars PROVE symbol # Return /\ symbol # ReturnNewLine
  BY ZenonT(40) DEF Chars, Symbols, Words, Return, ReturnNewLine, Comma, Quote, NewLine
<1> QED BY <1>1, Zenon

\* A place in a text: where the cell of a value starts, where each symbol of the value is
\* (place.pos[k - 1] for the symbol k) and where the cell ends.
AsItIs(x, place) ==
  /\ ~place.wrapped /\ place.pos[0] = place.start /\ place.fin = place.pos[Len(x)]
  /\ \A k \in 1 .. Len(x) :
       place.pos[k] = place.pos[k - 1] + 1 /\ x[k] \notin {Comma, Quote, NewLine}
InQuotes(text, x, place) ==
  /\ place.wrapped /\ place.pos[0] = place.start + 1 /\ place.fin = place.pos[Len(x)] + 1
  /\ place.start <= Len(text) /\ text[place.start] = Quote
  /\ place.pos[Len(x)] \in 1 .. Len(text) /\ text[place.pos[Len(x)]] = Quote
  /\ \A k \in 1 .. Len(x) : x[k] # Quote => place.pos[k] = place.pos[k - 1] + 1
  /\ \A k \in 1 .. Len(x) : x[k] = Quote =>
       /\ place.pos[k] = place.pos[k - 1] + 2
       /\ place.pos[k - 1] + 1 <= Len(text) /\ text[place.pos[k - 1] + 1] = Quote
CellAt(text, x, place) ==
  /\ place \in [start : Nat \ {0}, fin : Nat, wrapped : BOOLEAN, pos : [0 .. Len(x) -> Nat]]
  /\ place.fin <= Len(text) + 1
  /\ \A k \in 1 .. Len(x) : place.pos[k - 1] \in 1 .. Len(text) /\ text[place.pos[k - 1]] = x[k]
  /\ AsItIs(x, place) \/ InQuotes(text, x, place)

\* A text is in another one, o symbols later.
Within(code, text, o) ==
  /\ o \in Nat /\ Len(code) \in Nat /\ Len(text) \in Nat /\ o + Len(code) <= Len(text)
  /\ \A j \in 1 .. Len(code) : text[o + j] = code[j]

Later(x, place, o) ==
  [start |-> o + place.start, fin |-> o + place.fin, wrapped |-> place.wrapped,
   pos |-> [k \in 0 .. Len(x) |-> o + place.pos[k]]]

\* A cell stays one in a longer text.
LEMMA CellWithin ==
  ASSUME NEW code, NEW text, NEW x, NEW o, NEW place, Len(x) \in Nat,
         CellAt(code, x, place), Within(code, text, o)
  PROVE  CellAt(text, x, Later(x, place, o))
<1> DEFINE new == Later(x, place, o)
<1>1. /\ new.start = o + place.start /\ new.fin = o + place.fin /\ new.wrapped = place.wrapped
      /\ \A k \in 0 .. Len(x) : new.pos[k] = o + place.pos[k]
  BY DEF Later
<1>2. /\ place.start \in Nat \ {0} /\ place.fin \in Nat /\ place.wrapped \in BOOLEAN
      /\ \A k \in 0 .. Len(x) : place.pos[k] \in Nat
  BY DEF CellAt
<1>3. new \in [start : Nat \ {0}, fin : Nat, wrapped : BOOLEAN, pos : [0 .. Len(x) -> Nat]]
  <2>1. [k \in 0 .. Len(x) |-> o + place.pos[k]] \in [0 .. Len(x) -> Nat]
    BY <1>2 DEF Within
  <2>2. o + place.start \in Nat \ {0} /\ o + place.fin \in Nat
    BY <1>2 DEF Within
  <2> QED BY <1>2, <2>1, <2>2 DEF Later
<1> HIDE DEF new
<1>4. ASSUME NEW j \in Nat, j \in 1 .. Len(code)
      PROVE o + j \in 1 .. Len(text) /\ text[o + j] = code[j]
  BY <1>4 DEF Within
<1>5. new.fin <= Len(text) + 1
  BY <1>1, <1>2 DEF CellAt, Within
<1>6. ASSUME NEW k \in 1 .. Len(x)
      PROVE  /\ new.pos[k] = o + place.pos[k] /\ new.pos[k - 1] = o + place.pos[k - 1]
             /\ place.pos[k] \in Nat /\ place.pos[k - 1] \in Nat /\ o \in Nat
  <2>1. k \in 0 .. Len(x) /\ k - 1 \in 0 .. Len(x)
    OBVIOUS
  <2> QED BY <1>1, <1>2, <2>1 DEF Within
<1>7. ASSUME NEW k \in 1 .. Len(x)
      PROVE new.pos[k - 1] \in 1 .. Len(text) /\ text[new.pos[k - 1]] = x[k]
  <2>1. place.pos[k - 1] \in 1 .. Len(code) /\ code[place.pos[k - 1]] = x[k]
    BY DEF CellAt
  <2>2. place.pos[k - 1] \in Nat /\ new.pos[k - 1] = o + place.pos[k - 1]
    BY <1>6
  <2> QED BY <1>4, <2>1, <2>2
<1>11. Len(code) \in Nat
  BY DEF Within
<1>8. /\ new.pos[0] = o + place.pos[0] /\ new.pos[Len(x)] = o + place.pos[Len(x)]
      /\ place.pos[0] \in Nat /\ place.pos[Len(x)] \in Nat /\ o \in Nat
  <2>1. 0 \in 0 .. Len(x) /\ Len(x) \in 0 .. Len(x)
    OBVIOUS
  <2> QED BY <1>1, <1>2, <2>1 DEF Within
<1>9. CASE AsItIs(x, place)
  <2>1. ~new.wrapped /\ new.pos[0] = new.start /\ new.fin = new.pos[Len(x)]
    BY <1>1, <1>8, <1>9 DEF AsItIs
  <2>2. ASSUME NEW k \in 1 .. Len(x)
        PROVE new.pos[k] = new.pos[k - 1] + 1 /\ x[k] \notin {Comma, Quote, NewLine}
    <3>1. place.pos[k] = place.pos[k - 1] + 1 /\ x[k] \notin {Comma, Quote, NewLine}
      BY <1>9 DEF AsItIs
    <3>0. /\ new.pos[k] = o + place.pos[k] /\ new.pos[k - 1] = o + place.pos[k - 1]
          /\ place.pos[k] \in Nat /\ place.pos[k - 1] \in Nat /\ o \in Nat
      BY <1>6
    <3>2. new.pos[k] = new.pos[k - 1] + 1
      BY <3>0, <3>1
    <3> QED BY <3>1, <3>2
  <2>3. AsItIs(x, new)
    BY <2>1, <2>2 DEF AsItIs
  <2> QED BY <1>3, <1>5, <1>7, <2>3, Zenon DEF CellAt, new
<1>10. CASE InQuotes(code, x, place)
  <2>1. new.wrapped /\ new.pos[0] = new.start + 1 /\ new.fin = new.pos[Len(x)] + 1
    <3>1. place.wrapped /\ place.pos[0] = place.start + 1 /\ place.fin = place.pos[Len(x)] + 1
      BY <1>10 DEF InQuotes
    <3> QED BY <1>1, <1>2, <1>8, <3>1
  <2>2. place.start \in 1 .. Len(code) /\ code[place.start] = Quote
    BY <1>2, <1>10 DEF InQuotes, Within
  <2>3. new.start <= Len(text) /\ text[new.start] = Quote
    BY <1>1, <1>2, <1>4, <2>2
  <2>4. place.pos[Len(x)] \in 1 .. Len(code) /\ code[place.pos[Len(x)]] = Quote
    BY <1>10 DEF InQuotes
  <2>5. new.pos[Len(x)] \in 1 .. Len(text) /\ text[new.pos[Len(x)]] = Quote
    BY <1>4, <1>8, <2>4
  <2>6. ASSUME NEW k \in 1 .. Len(x), x[k] # Quote PROVE new.pos[k] = new.pos[k - 1] + 1
    <3>1. place.pos[k] = place.pos[k - 1] + 1
      BY <1>10, <2>6 DEF InQuotes
    <3>0. /\ new.pos[k] = o + place.pos[k] /\ new.pos[k - 1] = o + place.pos[k - 1]
          /\ place.pos[k] \in Nat /\ place.pos[k - 1] \in Nat /\ o \in Nat
      BY <1>6
    <3> QED BY <3>0, <3>1
  <2>7. ASSUME NEW k \in 1 .. Len(x), x[k] = Quote
        PROVE  /\ new.pos[k] = new.pos[k - 1] + 2
               /\ new.pos[k - 1] + 1 <= Len(text) /\ text[new.pos[k - 1] + 1] = Quote
    <3>1. /\ place.pos[k] = place.pos[k - 1] + 2
          /\ place.pos[k - 1] + 1 <= Len(code) /\ code[place.pos[k - 1] + 1] = Quote
      BY <1>10, <2>7 DEF InQuotes
    <3>0. /\ new.pos[k] = o + place.pos[k] /\ new.pos[k - 1] = o + place.pos[k - 1]
          /\ place.pos[k] \in Nat /\ place.pos[k - 1] \in Nat /\ o \in Nat
      BY <1>6
    <3>2. new.pos[k] = new.pos[k - 1] + 2
      BY <3>0, <3>1
    <3>3. o + (place.pos[k - 1] + 1) = new.pos[k - 1] + 1
      BY <3>0
    <3>5. place.pos[k - 1] + 1 \in Nat /\ place.pos[k - 1] + 1 >= 1
      BY <3>0, SMTT(30)
    <3>6. place.pos[k - 1] + 1 \in 1 .. Len(code)
      BY <1>11, <3>1, <3>5
    <3>4. o + (place.pos[k - 1] + 1) <= Len(text) /\ text[o + (place.pos[k - 1] + 1)] = Quote
      BY <1>4, <3>1, <3>5, <3>6
    <3> QED BY <3>2, <3>3, <3>4, Zenon
  <2>8. InQuotes(text, x, new)
    BY <2>1, <2>3, <2>5, <2>6, <2>7 DEF InQuotes
  <2> QED BY <1>3, <1>5, <1>7, <2>8, Zenon DEF CellAt, new
<1> QED BY <1>9, <1>10 DEF CellAt

\* A text without a comma, a quote or the end of a line is its own cell.
LEMMA PlainCell ==
  ASSUME NEW X, NEW x \in Seq(X), ToSet(x) \cap {Comma, Quote, NewLine} = {}
  PROVE  \E place : CellAt(x, x, place) /\ place.start = 1 /\ place.fin = Len(x) + 1
<1> DEFINE pos == [k \in 0 .. Len(x) |-> k + 1]
           place == [start |-> 1, fin |-> Len(x) + 1, wrapped |-> FALSE, pos |-> pos]
<1>1. Len(x) \in Nat /\ pos \in [0 .. Len(x) -> Nat] /\ \A k \in 0 .. Len(x) : pos[k] = k + 1
  OBVIOUS
<1> HIDE DEF pos
<1>2. /\ place \in [start : Nat \ {0}, fin : Nat, wrapped : BOOLEAN, pos : [0 .. Len(x) -> Nat]]
      /\ place.start = 1 /\ place.fin = Len(x) + 1 /\ place.pos = pos /\ ~place.wrapped
  BY <1>1
<1> HIDE DEF place
<1>3. ASSUME NEW k \in 1 .. Len(x)
      PROVE  /\ pos[k - 1] = k /\ pos[k] = k + 1
             /\ x[k] \notin {Comma, Quote, NewLine}
  <2>1. k \in 0 .. Len(x) /\ k - 1 \in 0 .. Len(x) /\ k - 1 + 1 = k
    BY <1>1
  <2>2. x[k] \in ToSet(x)
    BY DEF ToSet
  <2> QED BY <1>1, <2>1, <2>2
<1>4. AsItIs(x, place)
  <2>1. pos[0] = 1 /\ pos[Len(x)] = Len(x) + 1
    BY <1>1
  <2> QED BY <1>1, <1>2, <1>3, <2>1 DEF AsItIs
<1>5. \A k \in 1 .. Len(x) : place.pos[k - 1] \in 1 .. Len(x) /\ x[place.pos[k - 1]] = x[k]
  <2> TAKE k \in 1 .. Len(x)
  <2>1. place.pos[k - 1] = k
    BY <1>2, <1>3
  <2> QED BY <2>1
<1>6. 1 \in Nat \ {0} /\ place.fin <= Len(x) + 1
  BY <1>1, <1>2
<1>7. CellAt(x, x, place)
  BY <1>2, <1>4, <1>5, <1>6, Zenon DEF CellAt
<1> QED BY <1>2, <1>7


\* What is between the quotes: each quote twice.
Doubled(middle, x, at) ==
  /\ at \in [0 .. Len(x) -> Nat] /\ at[0] = 0 /\ at[Len(x)] = Len(middle)
  /\ \A k \in 1 .. Len(x) : at[k - 1] + 1 <= Len(middle) /\ middle[at[k - 1] + 1] = x[k]
  /\ \A k \in 1 .. Len(x) : x[k] # Quote => at[k] = at[k - 1] + 1
  /\ \A k \in 1 .. Len(x) : x[k] = Quote =>
       at[k] = at[k - 1] + 2 /\ at[k - 1] + 2 <= Len(middle) /\ middle[at[k - 1] + 2] = Quote

LEMMA DoubledIs ==
  ASSUME NEW X, Quote \in X, NEW x \in Seq(X), NEW parts,
         parts = [i \in DOMAIN x |-> IF x[i] = Quote THEN <<Quote, Quote>> ELSE <<x[i]>>]
  PROVE  FlattenSeq(parts) \in Seq(X) /\ \E at : Doubled(FlattenSeq(parts), x, at)
<1> DEFINE N == Len(x)
           Texts == Seq(X)
<1>1. N \in Nat /\ DOMAIN x = 1 .. N /\ \A i \in 1 .. N : x[i] \in X
  OBVIOUS
<1>2. CASE N = 0
  <2>1. parts = <<>>
    BY <1>1, <1>2
  <2>2. FlattenSeq(parts) = <<>>
    <3>1. Len(parts) = 0
      BY <2>1
    <3> QED BY <2>1, <3>1, Zenon DEF FlattenSeq
  <2> DEFINE at == [k \in 0 .. 0 |-> 0]
  <2>3. Doubled(<<>>, x, at)
    BY <1>2 DEF Doubled
  <2>4. <<>> \in Seq(X)
    OBVIOUS
  <2> QED BY <2>2, <2>3, <2>4, Zenon
<1>3. CASE N # 0
  <2>1. /\ \A s \in Texts : Len(s) \in Nat
        /\ \A s, t \in Texts : Cat(s, t) \in Texts /\ Concatenates(Cat(s, t), s, t)
    BY CatIs
  <2>2. /\ \A i \in 1 .. N : x[i] = Quote => parts[i] = <<Quote, Quote>>
        /\ \A i \in 1 .. N : x[i] # Quote => parts[i] = <<x[i]>>
        /\ DOMAIN parts = 1 .. N
    BY <1>1
  <2>3. ASSUME NEW i \in 1 .. N
        PROVE  /\ parts[i] \in Texts
               /\ x[i] # Quote => Len(parts[i]) = 1 /\ parts[i][1] = x[i]
               /\ x[i] = Quote => Len(parts[i]) = 2 /\ parts[i][1] = x[i] /\ parts[i][2] = Quote
    <3>1. CASE x[i] = Quote
      <4>1. parts[i] = <<Quote, Quote>>
        BY <2>2, <3>1
      <4> QED BY <3>1, <4>1
    <3>2. CASE x[i] # Quote
      <4>1. parts[i] = <<x[i]>> /\ x[i] \in X
        BY <1>1, <2>2, <3>2
      <4> QED BY <3>2, <4>1
    <3> QED BY <3>1, <3>2
  <2>4. parts = [i \in 1 .. N |-> parts[i]]
    BY <1>1
  <2>18. parts \in [1 .. N -> Texts]
    <3> HIDE DEF Texts, N
    <3> QED BY <2>3, <2>4
  <2>5. Len(parts) = N
    <3>1. DOMAIN parts = 1 .. N /\ N \in Nat
      BY <1>1, <2>2
    <3>2. parts \in Seq(Texts)
      <4> HIDE DEF Texts, N
      <4> QED BY <2>18, <3>1
    <3> QED BY <3>1, <3>2
  <2> HIDE DEF Texts, N
  <2> DEFINE middle == FlattenSeq(parts)
  <2>7. N \in Nat \ {0}
    BY <1>1, <1>3
  <2>8. PICK off \in [1 .. N -> Nat] : middle \in Texts /\ LayoutOf(middle, parts, N, off)
    BY <2>1, <2>5, <2>18, <2>7, FlattenLayout
  <2> DEFINE at == [k \in 0 .. N |-> IF k = N THEN Len(middle) ELSE off[k + 1]]
  <2> HIDE DEF middle
  <2>9. Len(middle) \in Nat
    BY <2>1, <2>8
  <2>10. /\ at[N] = Len(middle) /\ N \in 0 .. N
         /\ \A k \in 1 .. N : at[k - 1] = off[k]
    <3>1. at[N] = Len(middle) /\ N \in 0 .. N
      BY <2>7
    <3>2. ASSUME NEW k \in 1 .. N PROVE at[k - 1] = off[k]
      <4>1. k - 1 \in 0 .. N /\ k - 1 # N /\ k - 1 + 1 = k
        BY <2>7
      <4> QED BY <4>1
    <3> QED BY <3>1, <3>2
  <2>11. at \in [0 .. N -> Nat]
    <3>1. ASSUME NEW k \in 0 .. N, k # N PROVE off[k + 1] \in Nat
      <4>1. k + 1 \in 1 .. N
        BY <2>7, <3>1
      <4> QED BY <2>8, <4>1
    <3> QED BY <2>9, <3>1
  <2> HIDE DEF at
  <2>12. ASSUME NEW k \in 1 .. N
         PROVE  /\ off[k] \in Nat /\ at[k] = off[k] + Len(parts[k])
                /\ off[k] + Len(parts[k]) <= Len(middle)
                /\ \A j \in 1 .. Len(parts[k]) : middle[off[k] + j] = parts[k][j]
    <3>1. CASE k = N
      <4>1. Len(middle) = off[N] + Len(parts[N])
        BY <2>8 DEF LayoutOf
      <4> QED BY <2>8, <2>10, <3>1, <4>1 DEF LayoutOf
    <3>2. CASE k # N
      <4>1. k \in 1 .. N - 1 /\ k + 1 \in 1 .. N /\ k + 1 - 1 = k
        BY <2>7, <3>2
      <4>2. off[k + 1] = off[k] + Len(parts[k])
        BY <2>8, <4>1 DEF LayoutOf
      <4>3. at[k] = off[k + 1]
        BY <2>10, <4>1
      <4> QED BY <2>8, <4>2, <4>3 DEF LayoutOf
    <3> QED BY <3>1, <3>2
  <2>13. at[0] = 0
    <3>1. off[1] = 0
      BY <2>8 DEF LayoutOf
    <3>2. 1 \in 1 .. N /\ 1 - 1 = 0
      BY <2>7
    <3> QED BY <2>10, <3>1, <3>2
  <2>14. ASSUME NEW k \in 1 .. N
         PROVE at[k - 1] + 1 <= Len(middle) /\ middle[at[k - 1] + 1] = x[k]
    <3>1. at[k - 1] = off[k]
      BY <2>10
    <3>2. Len(parts[k]) >= 1 /\ Len(parts[k]) \in Nat /\ parts[k][1] = x[k]
      <4>1. CASE x[k] = Quote
        <5>1. Len(parts[k]) = 2 /\ parts[k][1] = x[k]
          BY <2>3, <4>1
        <5> QED BY <5>1
      <4>2. CASE x[k] # Quote
        <5>1. Len(parts[k]) = 1 /\ parts[k][1] = x[k]
          BY <2>3, <4>2
        <5> QED BY <5>1
      <4> QED BY <4>1, <4>2
    <3>3. off[k] \in Nat /\ off[k] + Len(parts[k]) <= Len(middle)
      BY <2>12
    <3>4. 1 \in 1 .. Len(parts[k])
      BY <3>2
    <3>5. middle[off[k] + 1] = x[k]
      BY <2>12, <3>2, <3>4
    <3> QED BY <2>9, <3>1, <3>2, <3>3, <3>5
  <2>15. ASSUME NEW k \in 1 .. N, x[k] # Quote PROVE at[k] = at[k - 1] + 1
    <3>1. at[k - 1] = off[k] /\ at[k] = off[k] + Len(parts[k])
      BY <2>10, <2>12
    <3>2. Len(parts[k]) = 1
      BY <2>3, <2>15
    <3> QED BY <3>1, <3>2
  <2>16. ASSUME NEW k \in 1 .. N, x[k] = Quote
         PROVE at[k] = at[k - 1] + 2 /\ at[k - 1] + 2 <= Len(middle) /\ middle[at[k - 1] + 2] = Quote
    <3>1. at[k - 1] = off[k] /\ at[k] = off[k] + Len(parts[k]) /\ off[k] + Len(parts[k]) <= Len(middle)
      BY <2>10, <2>12
    <3>2. Len(parts[k]) = 2 /\ parts[k][2] = Quote
      BY <2>3, <2>16
    <3>3. middle[off[k] + 2] = Quote
      <4>1. 2 \in 1 .. Len(parts[k])
        BY <3>2
      <4> QED BY <2>12, <3>2, <4>1
    <3> QED BY <3>1, <3>2, <3>3
  <2>17. Doubled(middle, x, at)
    BY <2>10, <2>11, <2>13, <2>14, <2>15, <2>16 DEF Doubled, N
  <2> QED BY <2>8, <2>17 DEF middle, Texts
<1> QED BY <1>2, <1>3

\* What Quoted makes of a text is a cell of it.
LEMMA QuotedCell ==
  ASSUME NEW X, Quote \in X, NEW x \in Seq(X)
  PROVE  /\ Quoted(x) \in Seq(X)
         /\ \E place : CellAt(Quoted(x), x, place) /\ place.start = 1 /\ place.fin = Len(Quoted(x)) + 1
<1> DEFINE parts == [i \in DOMAIN x |-> IF x[i] = Quote THEN <<Quote, Quote>> ELSE <<x[i]>>]
           middle == FlattenSeq(parts)
           Texts == Seq(X)
           q == <<Quote>>
<1>1. middle \in Texts /\ \E at : Doubled(middle, x, at)
  BY DoubledIs
<1>2. Quoted(x) = Cat(Cat(q, middle), q)
  BY Zenon DEF Quoted, Cat
<1>3. q \in Texts /\ Len(q) = 1 /\ q[1] = Quote /\ Len(x) \in Nat
  OBVIOUS
<1>4. /\ \A s \in Texts : Len(s) \in Nat
      /\ \A s, t \in Texts : Cat(s, t) \in Texts /\ Concatenates(Cat(s, t), s, t)
  BY CatIs
<1> HIDE DEF middle, Texts, q
<1> DEFINE half == Cat(q, middle)
           code == Cat(half, q)
<1>5. half \in Texts /\ Concatenates(half, q, middle)
  BY <1>1, <1>3, <1>4
<1>6. code \in Texts /\ Concatenates(code, half, q)
  BY <1>3, <1>4, <1>5
<1> HIDE DEF half, code
<1>7. Len(middle) \in Nat /\ Len(half) = 1 + Len(middle) /\ Len(code) = Len(middle) + 2
  <2>1. Len(middle) \in Nat
    BY <1>1, <1>4
  <2> QED BY <1>3, <1>5, <1>6, <2>1 DEF Concatenates
<1>8. code[1] = Quote /\ code[Len(middle) + 2] = Quote
  <2>1. code[1] = half[1] /\ half[1] = q[1]
    <3>1. 1 \in 1 .. Len(half) /\ 1 \in 1 .. Len(q)
      BY <1>3, <1>7
    <3> QED BY <1>5, <1>6, <3>1 DEF Concatenates
  <2>2. code[Len(half) + 1] = q[1]
    BY <1>3, <1>6 DEF Concatenates
  <2>3. Len(half) + 1 = Len(middle) + 2
    BY <1>7
  <2> QED BY <1>3, <2>1, <2>2, <2>3
<1>9. ASSUME NEW i \in 1 .. Len(middle) PROVE code[1 + i] = middle[i]
  <2>1. half[Len(q) + i] = middle[i]
    BY <1>5 DEF Concatenates
  <2>2. 1 + i \in 1 .. Len(half)
    BY <1>7
  <2>3. code[1 + i] = half[1 + i]
    BY <1>6, <2>2 DEF Concatenates
  <2> QED BY <1>3, <2>1, <2>3
<1>10. PICK at : Doubled(middle, x, at)
  BY <1>1
<1>11. /\ at \in [0 .. Len(x) -> Nat] /\ at[0] = 0 /\ at[Len(x)] = Len(middle)
       /\ \A k \in 1 .. Len(x) : at[k - 1] + 1 <= Len(middle) /\ middle[at[k - 1] + 1] = x[k]
       /\ \A k \in 1 .. Len(x) : x[k] # Quote => at[k] = at[k - 1] + 1
       /\ \A k \in 1 .. Len(x) : x[k] = Quote =>
            at[k] = at[k - 1] + 2 /\ at[k - 1] + 2 <= Len(middle) /\ middle[at[k - 1] + 2] = Quote
  BY <1>10 DEF Doubled
<1> DEFINE pos == [k \in 0 .. Len(x) |-> at[k] + 2]
           place == [start |-> 1, fin |-> Len(middle) + 3, wrapped |-> TRUE, pos |-> pos]
<1>12. pos \in [0 .. Len(x) -> Nat] /\ \A k \in 0 .. Len(x) : pos[k] = at[k] + 2 /\ at[k] \in Nat
  <2>1. at \in [0 .. Len(x) -> Nat]
    BY <1>11
  <2> QED BY <2>1
<1> HIDE DEF pos
<1>13. /\ place \in [start : Nat \ {0}, fin : Nat, wrapped : BOOLEAN, pos : [0 .. Len(x) -> Nat]]
       /\ place.start = 1 /\ place.fin = Len(middle) + 3 /\ place.pos = pos /\ place.wrapped
  BY <1>7, <1>12
<1> HIDE DEF place
<1>14. ASSUME NEW k \in 1 .. Len(x)
       PROVE  /\ place.pos[k] = at[k] + 2 /\ place.pos[k - 1] = at[k - 1] + 2
              /\ at[k - 1] \in Nat
  <2>1. k \in 0 .. Len(x) /\ k - 1 \in 0 .. Len(x)
    OBVIOUS
  <2> QED BY <1>12, <1>13, <2>1
<1>15. /\ place.pos[0] = 2 /\ place.pos[Len(x)] = Len(middle) + 2
  <2>1. 0 \in 0 .. Len(x) /\ Len(x) \in 0 .. Len(x)
    BY <1>3
  <2> QED BY <1>11, <1>12, <1>13, <2>1
<1>16. ASSUME NEW k \in 1 .. Len(x)
       PROVE place.pos[k - 1] \in 1 .. Len(code) /\ code[place.pos[k - 1]] = x[k]
  <2>1. place.pos[k - 1] = at[k - 1] + 2 /\ at[k - 1] \in Nat
    BY <1>14
  <2>2. at[k - 1] + 1 <= Len(middle) /\ middle[at[k - 1] + 1] = x[k]
    BY <1>11
  <2>3. at[k - 1] + 1 \in 1 .. Len(middle) /\ 1 + (at[k - 1] + 1) = place.pos[k - 1]
    <3>1. Len(middle) \in Nat
      BY <1>7
    <3> QED BY <2>1, <2>2, <3>1, SMTT(40)
  <2>4. code[1 + (at[k - 1] + 1)] = x[k]
    BY <1>9, <2>2, <2>3
  <2>5. place.pos[k - 1] \in 1 .. Len(code)
    BY <1>7, <2>1, <2>2
  <2> QED BY <2>3, <2>4, <2>5
<1>17. ASSUME NEW k \in 1 .. Len(x), x[k] # Quote PROVE place.pos[k] = place.pos[k - 1] + 1
  <2>1. place.pos[k - 1] = at[k - 1] + 2 /\ at[k - 1] \in Nat /\ place.pos[k] = at[k] + 2
    BY <1>14
  <2>2. at[k] = at[k - 1] + 1
    BY <1>11, <1>17
  <2> QED BY <2>1, <2>2
<1>18. ASSUME NEW k \in 1 .. Len(x), x[k] = Quote
       PROVE  /\ place.pos[k] = place.pos[k - 1] + 2
              /\ place.pos[k - 1] + 1 <= Len(code) /\ code[place.pos[k - 1] + 1] = Quote
  <2>1. place.pos[k - 1] = at[k - 1] + 2 /\ at[k - 1] \in Nat /\ place.pos[k] = at[k] + 2
    BY <1>14
  <2>2. at[k] = at[k - 1] + 2 /\ at[k - 1] + 2 <= Len(middle) /\ middle[at[k - 1] + 2] = Quote
    BY <1>11, <1>18
  <2>3. at[k - 1] + 2 \in 1 .. Len(middle) /\ 1 + (at[k - 1] + 2) = place.pos[k - 1] + 1
    <3>1. Len(middle) \in Nat
      BY <1>7
    <3> QED BY <2>1, <2>2, <3>1, SMTT(40)
  <2>4. code[1 + (at[k - 1] + 2)] = Quote
    BY <1>9, <2>2, <2>3
  <2>5. place.pos[k - 1] + 1 <= Len(code) /\ place.pos[k] = place.pos[k - 1] + 2
    BY <1>7, <2>1, <2>2
  <2>6. code[place.pos[k - 1] + 1] = Quote
    BY <2>3, <2>4
  <2> QED BY <2>5, <2>6, Zenon
<1>19. /\ place.wrapped /\ place.pos[0] = place.start + 1 /\ place.fin = place.pos[Len(x)] + 1
       /\ place.start <= Len(code) /\ code[place.start] = Quote
       /\ place.pos[Len(x)] \in 1 .. Len(code) /\ code[place.pos[Len(x)]] = Quote
       /\ place.fin <= Len(code) + 1 /\ place.fin = Len(code) + 1
  BY <1>7, <1>8, <1>13, <1>15
<1>20. InQuotes(code, x, place)
  BY <1>17, <1>18, <1>19 DEF InQuotes
<1>21. CellAt(code, x, place)
  BY <1>13, <1>16, <1>19, <1>20, Zenon DEF CellAt
<1>22. code = Quoted(x)
  BY <1>2 DEF code, half
<1> QED BY <1>6, <1>13, <1>19, <1>21, <1>22 DEF Texts

-----------------------------------------------------------------------------
(* Where the cells of a file are.                                           *)

LEMMA Regroup ==
  ASSUME NEW m \in Nat, NEW n \in Nat, NEW o \in Nat
  PROVE  m + (n + o + 1) = (m + n) + o + 1 /\ m + (n + o) + 1 = (m + n) + o + 1
OBVIOUS

LEMMA WithinWithin ==
  ASSUME NEW a, NEW b, NEW c, NEW m, NEW n, Within(a, b, m), Within(b, c, n)
  PROVE  Within(a, c, n + m)
<1>1. /\ m \in Nat /\ n \in Nat /\ Len(a) \in Nat /\ Len(b) \in Nat /\ Len(c) \in Nat
      /\ m + Len(a) <= Len(b) /\ n + Len(b) <= Len(c)
  BY DEF Within
<1>2. ASSUME NEW j \in 1 .. Len(a) PROVE c[(n + m) + j] = a[j]
  <2>1. m + j \in 1 .. Len(b) /\ n + (m + j) = (n + m) + j
    BY <1>1
  <2>2. c[n + (m + j)] = b[m + j] /\ b[m + j] = a[j]
    BY <2>1 DEF Within
  <2> QED BY <2>1, <2>2
<1>3. n + m \in Nat /\ (n + m) + Len(a) <= Len(c)
  BY <1>1
<1> QED BY <1>1, <1>2, <1>3 DEF Within

\* The symbols before each cell but the first.
Laid(text, lines, N, separator, off) ==
  /\ off[1][1] = 0 /\ Len(text) = off[N][Len(lines[N])] + Len(lines[N][Len(lines[N])])
  /\ \A r \in 1 .. N : \A c \in 1 .. Len(lines[r]) : Within(lines[r][c], text, off[r][c])
  /\ \A r \in 1 .. N : \A c \in 1 .. Len(lines[r]) - 1 :
       off[r][c + 1] = off[r][c] + Len(lines[r][c]) + 1 /\ text[off[r][c + 1]] = Comma
  /\ \A r \in 1 .. N - 1 :
       /\ off[r + 1][1] = off[r][Len(lines[r])] + Len(lines[r][Len(lines[r])]) + 1
       /\ text[off[r + 1][1]] = separator

\* Every cell of a file is in its text, in order.
LEMMA TextIsLaid ==
  ASSUME NEW X, Comma \in X, NEW separator \in X, NEW lines, NEW N \in Nat \ {0}, DOMAIN lines = 1 .. N,
         \A r \in 1 .. N : lines[r] \in Seq(Seq(X)) /\ lines[r] # <<>>
  PROVE  Text(lines, separator) \in Seq(X) /\ \E off : Laid(Text(lines, separator), lines, N, separator, off)
<1> DEFINE Texts == Seq(X)
           rowTexts == [r \in 1 .. N |-> Join(lines[r], <<Comma>>)]
           L(r) == Len(lines[r])
           Inner(r, a) == Joined(rowTexts[r], lines[r], L(r), Comma, a)
           text == Text(lines, separator)
<1>1. ASSUME NEW r \in 1 .. N
      PROVE L(r) \in Nat \ {0} /\ lines[r] \in [1 .. L(r) -> Texts]
  <2> HIDE DEF Texts
  <2>1. lines[r] \in Seq(Texts) /\ lines[r] # <<>>
    BY DEF Texts
  <2> QED BY <2>1
<1>2. text = Join(rowTexts, <<separator>>)
  BY Zenon DEF Text
<1>3. ASSUME NEW r \in 1 .. N PROVE rowTexts[r] \in Texts /\ \E a : Inner(r, a)
  <2>1. Join(lines[r], <<Comma>>) \in Seq(X) /\ \E a : Joined(Join(lines[r], <<Comma>>), lines[r], L(r), Comma, a)
    <3> HIDE DEF L
    <3> QED BY <1>1, JoinLayout
  <2>2. rowTexts[r] = Join(lines[r], <<Comma>>)
    BY Zenon
  <2> QED BY <2>1, <2>2, Zenon
<1>4. \A s \in Texts : Len(s) \in Nat
  OBVIOUS
<1>5. rowTexts = [r \in 1 .. N |-> rowTexts[r]]
  BY Zenon
<1> HIDE DEF Texts, rowTexts, text
<1>6. rowTexts \in [1 .. N -> Texts]
  BY <1>3, <1>5
<1>7. text \in Texts /\ \E a : Joined(text, rowTexts, N, separator, a)
  BY <1>2, <1>6, JoinLayout DEF Texts
<1>8. PICK at : Joined(text, rowTexts, N, separator, at)
  BY <1>7
<1> DEFINE in == [r \in 1 .. N |-> CHOOSE a : Inner(r, a)]
<1>9. \A r \in 1 .. N : Inner(r, in[r])
  <2> HIDE DEF Inner
  <2> QED BY <1>3
<1> HIDE DEF in
<1> DEFINE off == [r \in 1 .. N |-> [c \in 1 .. L(r) |-> at[r] + in[r][c]]]
<1>10. \A r \in 1 .. N : \A c \in 1 .. L(r) : off[r][c] = at[r] + in[r][c]
  <2> HIDE DEF L
  <2> QED OBVIOUS
<1> HIDE DEF off
<1>11. ASSUME NEW r \in 1 .. N
       PROVE  /\ in[r] \in [1 .. L(r) -> Nat] /\ in[r][1] = 0
              /\ Len(rowTexts[r]) = in[r][L(r)] + Len(lines[r][L(r)])
              /\ \A c \in 1 .. L(r) - 1 :
                   in[r][c + 1] = in[r][c] + Len(lines[r][c]) + 1 /\ rowTexts[r][in[r][c + 1]] = Comma
              /\ \A c \in 1 .. L(r) : in[r][c] + Len(lines[r][c]) <= Len(rowTexts[r])
              /\ \A c \in 1 .. L(r) : \A j \in 1 .. Len(lines[r][c]) : rowTexts[r][in[r][c] + j] = lines[r][c][j]
  BY <1>9 DEF Joined
<1>12. /\ at \in [1 .. N -> Nat] /\ at[1] = 0 /\ Len(text) = at[N] + Len(rowTexts[N])
       /\ \A r \in 1 .. N - 1 : at[r + 1] = at[r] + Len(rowTexts[r]) + 1 /\ text[at[r + 1]] = separator
       /\ \A r \in 1 .. N : at[r] + Len(rowTexts[r]) <= Len(text)
       /\ \A r \in 1 .. N : \A j \in 1 .. Len(rowTexts[r]) : text[at[r] + j] = rowTexts[r][j]
  BY <1>8 DEF Joined
<1>13. ASSUME NEW r \in 1 .. N PROVE Within(rowTexts[r], text, at[r])
  <2>1. at[r] \in Nat /\ Len(rowTexts[r]) \in Nat /\ Len(text) \in Nat
    BY <1>3, <1>4, <1>7, <1>12
  <2> QED BY <1>12, <2>1 DEF Within
<1>14. ASSUME NEW r \in 1 .. N, NEW c \in 1 .. L(r)
       PROVE  /\ in[r][c] \in Nat /\ Len(lines[r][c]) \in Nat /\ at[r] \in Nat
              /\ Within(lines[r][c], text, off[r][c])
  <2>1. in[r][c] \in Nat /\ Len(lines[r][c]) \in Nat /\ Len(rowTexts[r]) \in Nat /\ at[r] \in Nat
    <3>1. lines[r][c] \in Texts
      BY <1>1
    <3>2. in[r] \in [1 .. L(r) -> Nat]
      BY <1>11
    <3> HIDE DEF L
    <3> QED BY <1>3, <1>4, <1>12, <3>1, <3>2
  <2>2. Within(lines[r][c], rowTexts[r], in[r][c])
    BY <1>11, <2>1 DEF Within
  <2>3. Within(lines[r][c], text, at[r] + in[r][c])
    BY <1>13, <2>2, WithinWithin
  <2> QED BY <1>10, <2>1, <2>3
<1>15. ASSUME NEW r \in 1 .. N, NEW c \in 1 .. L(r) - 1
       PROVE off[r][c + 1] = off[r][c] + Len(lines[r][c]) + 1 /\ text[off[r][c + 1]] = Comma
  <2>1. L(r) \in Nat
    BY <1>1
  <2>2. c \in 1 .. L(r) /\ c + 1 \in 1 .. L(r)
    BY <2>1
  <2>3. in[r][c + 1] = in[r][c] + Len(lines[r][c]) + 1 /\ rowTexts[r][in[r][c + 1]] = Comma
    BY <1>11
  <2>4. off[r][c + 1] = at[r] + in[r][c + 1] /\ off[r][c] = at[r] + in[r][c]
    BY <1>10, <2>2
  <2>5. in[r][c] \in Nat /\ Len(lines[r][c]) \in Nat /\ at[r] \in Nat
    BY <1>14, <2>2
  <2>6. in[r][c + 1] \in 1 .. Len(rowTexts[r])
    <3>1. in[r][c + 1] + Len(lines[r][c + 1]) <= Len(rowTexts[r]) /\ in[r][c + 1] \in Nat
      BY <1>11, <1>14, <2>2
    <3>2. Len(lines[r][c + 1]) \in Nat /\ Len(rowTexts[r]) \in Nat
      BY <1>3, <1>4, <1>14, <2>2
    <3>3. in[r][c + 1] >= 1
      BY <2>3, <2>5, Positive, Zenon
    <3>4. in[r][c + 1] <= Len(rowTexts[r])
      BY <3>1, <3>2, Room, Zenon
    <3> QED BY <3>1, <3>3, <3>4
  <2>7. text[at[r] + in[r][c + 1]] = Comma
    BY <1>12, <2>3, <2>6
  <2>8. off[r][c + 1] = off[r][c] + Len(lines[r][c]) + 1
    <3>1. off[r][c + 1] = at[r] + (in[r][c] + Len(lines[r][c]) + 1)
      BY <2>3, <2>4
    <3>2. off[r][c] = at[r] + in[r][c]
      BY <2>4
    <3>3. at[r] + (in[r][c] + Len(lines[r][c]) + 1) = (at[r] + in[r][c]) + Len(lines[r][c]) + 1
      BY <2>5, Regroup, Zenon
    <3> QED BY <3>1, <3>2, <3>3, Zenon
  <2>9. text[off[r][c + 1]] = Comma
    BY <2>4, <2>7
  <2> QED BY <2>8, <2>9
<1>16. ASSUME NEW r \in 1 .. N - 1
       PROVE  /\ off[r + 1][1] = off[r][L(r)] + Len(lines[r][L(r)]) + 1
              /\ text[off[r + 1][1]] = separator
  <2>1. r \in 1 .. N /\ r + 1 \in 1 .. N
    OBVIOUS
  <2>2. L(r) \in 1 .. L(r) /\ 1 \in 1 .. L(r + 1)
    BY <1>1, <2>1
  <2>3. off[r + 1][1] = at[r + 1] + 0 /\ off[r][L(r)] = at[r] + in[r][L(r)]
    <3>1. off[r + 1][1] = at[r + 1] + in[r + 1][1] /\ in[r + 1][1] = 0
      BY <1>10, <1>11, <2>1, <2>2
    <3>2. off[r][L(r)] = at[r] + in[r][L(r)]
      BY <1>10, <2>1, <2>2
    <3> QED BY <3>1, <3>2
  <2>4. at[r + 1] = at[r] + Len(rowTexts[r]) + 1 /\ text[at[r + 1]] = separator /\ at[r + 1] \in Nat
    BY <1>12, <2>1
  <2>5. Len(rowTexts[r]) = in[r][L(r)] + Len(lines[r][L(r)])
    BY <1>11, <2>1
  <2>6. in[r][L(r)] \in Nat /\ Len(lines[r][L(r)]) \in Nat /\ at[r] \in Nat
    BY <1>14, <2>1, <2>2
  <2>7. off[r + 1][1] = at[r + 1]
    BY <2>3, <2>4
  <2>8. at[r + 1] = off[r][L(r)] + Len(lines[r][L(r)]) + 1
    <3>1. at[r + 1] = at[r] + (in[r][L(r)] + Len(lines[r][L(r)])) + 1
      BY <2>4, <2>5
    <3>2. off[r][L(r)] = at[r] + in[r][L(r)]
      BY <2>3
    <3>3. at[r] + (in[r][L(r)] + Len(lines[r][L(r)])) + 1 = (at[r] + in[r][L(r)]) + Len(lines[r][L(r)]) + 1
      BY <2>6, Regroup, Zenon
    <3> QED BY <3>1, <3>2, <3>3, Zenon
  <2> QED BY <2>4, <2>7, <2>8
<1>17. off[1][1] = 0 /\ Len(text) = off[N][L(N)] + Len(lines[N][L(N)])
  <2>1. 1 \in 1 .. N /\ N \in 1 .. N
    OBVIOUS
  <2>2. L(N) \in 1 .. L(N) /\ 1 \in 1 .. L(1)
    BY <1>1, <2>1
  <2>3. off[1][1] = 0 + 0 /\ off[N][L(N)] = at[N] + in[N][L(N)]
    <3>1. off[1][1] = at[1] + in[1][1] /\ in[1][1] = 0 /\ at[1] = 0
      BY <1>10, <1>11, <1>12, <2>1, <2>2
    <3>2. off[N][L(N)] = at[N] + in[N][L(N)]
      BY <1>10, <2>1, <2>2
    <3> QED BY <3>1, <3>2
  <2>4. in[N][L(N)] \in Nat /\ Len(lines[N][L(N)]) \in Nat /\ at[N] \in Nat
    BY <1>14, <2>1, <2>2
  <2> QED BY <1>11, <1>12, <2>1, <2>3, <2>4, SMTT(30)
<1>18. Laid(text, lines, N, separator, off)
  BY <1>14, <1>15, <1>16, <1>17 DEF Laid
<1> QED BY <1>7, <1>18 DEF Texts, text

\* A file: the cells of a table, with what ends each.
Written(text, table, N, places, tail) ==
  /\ Len(text) \in Nat /\ (\E S : text \in Seq(S)) /\ places[1][1].start = 1
  /\ \A r \in 1 .. N : \A c \in 1 .. Len(table[r]) : CellAt(text, table[r][c], places[r][c])
  /\ \A r \in 1 .. N : \A c \in 1 .. Len(table[r]) - 1 :
       /\ places[r][c].fin <= Len(text) /\ text[places[r][c].fin] = Comma
       /\ places[r][c + 1].start = places[r][c].fin + 1
  /\ \A r \in 1 .. N - 1 :
       LET fin == places[r][Len(table[r])].fin
       IN  fin <= Len(text) /\ text[fin] = NewLine /\ places[r + 1][1].start = fin + 1
  /\ LET fin == places[N][Len(table[N])].fin
     IN  IF tail THEN fin = Len(text) /\ text[fin] = NewLine ELSE fin = Len(text) + 1

LEMMA Upto ==
  ASSUME NEW o \in Nat, NEW m \in Nat, NEW n \in Nat, o + m <= n, NEW j \in 1 .. m
  PROVE  o + j \in 1 .. n
OBVIOUS

\* Every cell of a table is written as the cell of a value.
Coded(lines, table, N) ==
  /\ \A r \in 1 .. N : Len(table[r]) \in Nat \ {0} /\ Len(lines[r]) = Len(table[r])
  /\ \A r \in 1 .. N : \A c \in 1 .. Len(table[r]) :
       /\ Len(table[r][c]) \in Nat /\ lines[r][c] \in Seq(Chars)
       /\ \E place : /\ CellAt(lines[r][c], table[r][c], place)
                     /\ place.start = 1 /\ place.fin = Len(lines[r][c]) + 1

\* The text as it is read: its line ends are normalized, and a blank row has one of its own.
Saves(saved, text, tail) ==
  /\ \E S : saved \in Seq(S)
  /\ Len(saved) = IF tail THEN Len(text) + 1 ELSE Len(text)
  /\ \A i \in 1 .. Len(text) :
       saved[i] = IF text[i] \in {Return, ReturnNewLine} THEN NewLine ELSE text[i]
  /\ tail => saved[Len(saved)] = NewLine

\* Normalizing the ends of lines leaves every cell where it is, since no cell has one that
\* it changes.
LEMMA FileIsWritten ==
  ASSUME NEW text, NEW lines, NEW N \in Nat \ {0}, NEW separator \in {NewLine, ReturnNewLine},
         NEW table, NEW off, Laid(text, lines, N, separator, off), Coded(lines, table, N),
         NEW saved, NEW tail \in BOOLEAN, Len(text) \in Nat, Saves(saved, text, tail)
  PROVE  \E places : Written(saved, table, N, places, tail)
<1> DEFINE L(r) == Len(table[r])
           Good(r, c, place) ==
             /\ CellAt(saved, table[r][c], place) /\ place.start = off[r][c] + 1
             /\ place.fin = off[r][c] + (Len(lines[r][c]) + 1)
<1>11. \A r \in 1 .. N : L(r) \in Nat \ {0} /\ Len(lines[r]) = L(r)
  BY DEF Coded
<1>12. \A r \in 1 .. N : \A c \in 1 .. L(r) :
         /\ Len(table[r][c]) \in Nat /\ lines[r][c] \in Seq(Chars)
         /\ \E place : /\ CellAt(lines[r][c], table[r][c], place)
                       /\ place.start = 1 /\ place.fin = Len(lines[r][c]) + 1
  BY DEF Coded
<1>13. /\ Len(saved) = IF tail THEN Len(text) + 1 ELSE Len(text)
       /\ \A i \in 1 .. Len(text) :
            saved[i] = IF text[i] \in {Return, ReturnNewLine} THEN NewLine ELSE text[i]
       /\ tail => saved[Len(saved)] = NewLine
  BY DEF Saves
<1>14. \E S : saved \in Seq(S)
  BY DEF Saves
<1>1. Len(saved) \in Nat /\ Len(text) <= Len(saved)
  BY <1>13
<1>2. ASSUME NEW r \in 1 .. N, NEW c \in 1 .. L(r)
      PROVE  /\ off[r][c] \in Nat /\ Len(lines[r][c]) \in Nat
             /\ Within(lines[r][c], saved, off[r][c])
  <2>1. Within(lines[r][c], text, off[r][c]) /\ lines[r][c] \in Seq(Chars)
    BY <1>11, <1>12 DEF Laid
  <2>2. off[r][c] \in Nat /\ Len(lines[r][c]) \in Nat /\ off[r][c] + Len(lines[r][c]) <= Len(text)
    BY <2>1 DEF Within
  <2>3. ASSUME NEW j \in 1 .. Len(lines[r][c]) PROVE saved[off[r][c] + j] = lines[r][c][j]
    <3>1. text[off[r][c] + j] = lines[r][c][j] /\ lines[r][c][j] \in Chars
      <4>1. text[off[r][c] + j] = lines[r][c][j]
        BY <2>1, Zenon DEF Within
      <4>2. lines[r][c][j] \in Chars
        BY <2>1, ElementOfSeq, Zenon
      <4> QED BY <4>1, <4>2, Zenon
    <3>2. lines[r][c][j] \notin {Return, ReturnNewLine}
      BY <3>1, NoReturns, Zenon
    <3>3. off[r][c] + j \in 1 .. Len(text)
      BY <2>2, Upto, Zenon
    <3> QED BY <1>13, <3>1, <3>2, <3>3
  <2>4. off[r][c] + Len(lines[r][c]) <= Len(saved)
    BY <1>1, <2>2
  <2> QED BY <1>1, <2>2, <2>3, <2>4 DEF Within
<1>3. ASSUME NEW r \in 1 .. N, NEW c \in 1 .. L(r)
      PROVE \E place : Good(r, c, place)
  <2>1. PICK b : CellAt(lines[r][c], table[r][c], b) /\ b.start = 1 /\ b.fin = Len(lines[r][c]) + 1
    BY <1>12
  <2> DEFINE place == Later(table[r][c], b, off[r][c])
  <2>2. Within(lines[r][c], saved, off[r][c]) /\ Len(table[r][c]) \in Nat
    BY <1>2, <1>12
  <2>3. CellAt(saved, table[r][c], place)
    BY <2>1, <2>2, CellWithin
  <2>4. place.start = off[r][c] + b.start /\ place.fin = off[r][c] + b.fin
    BY DEF Later
  <2> HIDE DEF place
  <2> QED BY <2>1, <2>3, <2>4
<1> DEFINE places == [r \in 1 .. N |-> [c \in 1 .. L(r) |-> CHOOSE place : Good(r, c, place)]]
<1>4. ASSUME NEW r \in 1 .. N, NEW c \in 1 .. L(r) PROVE Good(r, c, places[r][c])
  <2> HIDE DEF Good, L
  <2>1. places[r][c] = CHOOSE place : Good(r, c, place)
    OBVIOUS
  <2> QED BY <1>3, <2>1
<1> HIDE DEF places
<1>5. ASSUME NEW r \in 1 .. N, NEW c \in 1 .. L(r)
      PROVE  /\ CellAt(saved, table[r][c], places[r][c]) /\ places[r][c].start = off[r][c] + 1
             /\ places[r][c].fin = off[r][c] + (Len(lines[r][c]) + 1)
             /\ places[r][c].fin = off[r][c] + Len(lines[r][c]) + 1
  <2>1. Good(r, c, places[r][c]) /\ off[r][c] \in Nat /\ Len(lines[r][c]) \in Nat
    BY <1>2, <1>4
  <2>2. off[r][c] + (Len(lines[r][c]) + 1) = off[r][c] + Len(lines[r][c]) + 1
    BY <2>1, PlusOne, Zenon
  <2> QED BY <2>1, <2>2, Zenon
<1>6. ASSUME NEW f \in 1 .. Len(text), text[f] \in {Comma, NewLine, ReturnNewLine}
      PROVE  /\ f <= Len(saved) /\ saved[f] = IF text[f] = Comma THEN Comma ELSE NewLine
  <2>1. Comma # NewLine /\ Comma \notin {Return, ReturnNewLine} /\ NewLine # Return /\ NewLine # ReturnNewLine
    BY DEF Comma, NewLine, Return, ReturnNewLine
  <2> QED BY <1>1, <1>6, <1>13, <2>1
<1>7. ASSUME NEW r \in 1 .. N, NEW c \in 1 .. L(r) - 1
      PROVE  /\ places[r][c].fin <= Len(saved) /\ saved[places[r][c].fin] = Comma
             /\ places[r][c + 1].start = places[r][c].fin + 1
  <2>1. L(r) \in Nat /\ c \in 1 .. L(r) /\ c + 1 \in 1 .. L(r)
    BY <1>11
  <2>2. off[r][c + 1] = off[r][c] + Len(lines[r][c]) + 1 /\ text[off[r][c + 1]] = Comma
    BY <1>11 DEF Laid
  <2>3. places[r][c].fin = off[r][c + 1] /\ places[r][c + 1].start = off[r][c + 1] + 1
    BY <1>5, <2>1, <2>2
  <2>4. off[r][c + 1] \in 1 .. Len(text)
    <3>1. Within(lines[r][c + 1], text, off[r][c + 1])
      BY <1>11, <2>1 DEF Laid
    <3>2. off[r][c + 1] \in Nat /\ off[r][c + 1] <= Len(text)
      BY <3>1 DEF Within
    <3>3. off[r][c] \in Nat /\ Len(lines[r][c]) \in Nat
      BY <1>2, <2>1
    <3>4. off[r][c + 1] # 0
      BY <2>2, <3>3, Positive, Zenon
    <3> QED BY <3>2, <3>4
  <2> QED BY <1>6, <2>2, <2>3, <2>4
<1>8. ASSUME NEW r \in 1 .. N - 1
      PROVE  /\ places[r][L(r)].fin <= Len(saved) /\ saved[places[r][L(r)].fin] = NewLine
             /\ places[r + 1][1].start = places[r][L(r)].fin + 1
  <2>1. r \in 1 .. N /\ r + 1 \in 1 .. N
    OBVIOUS
  <2>2. L(r) \in 1 .. L(r) /\ 1 \in 1 .. L(r + 1)
    BY <1>11, <2>1
  <2>3. off[r + 1][1] = off[r][L(r)] + Len(lines[r][L(r)]) + 1 /\ text[off[r + 1][1]] = separator
    <3>1. Len(lines[r]) = L(r)
      BY <1>11, <2>1
    <3> QED BY <3>1 DEF Laid
  <2>4. places[r][L(r)].fin = off[r + 1][1] /\ places[r + 1][1].start = off[r + 1][1] + 1
    BY <1>5, <2>1, <2>2, <2>3
  <2>5. off[r + 1][1] \in 1 .. Len(text)
    <3>1. Within(lines[r + 1][1], text, off[r + 1][1])
      BY <1>11, <2>1, <2>2 DEF Laid
    <3>2. off[r + 1][1] \in Nat /\ off[r + 1][1] <= Len(text)
      BY <3>1 DEF Within
    <3>3. off[r][L(r)] \in Nat /\ Len(lines[r][L(r)]) \in Nat
      BY <1>2, <2>1, <2>2
    <3>4. off[r + 1][1] >= 1
      BY <2>3, <3>3, Positive, Zenon
    <3> QED BY <3>2, <3>4
  <2>6. separator # Comma
    BY DEF Comma, NewLine, ReturnNewLine
  <2> QED BY <1>6, <2>3, <2>4, <2>5, <2>6
<1>9. places[1][1].start = 1
  <2>1. 1 \in 1 .. N /\ 1 \in 1 .. L(1) /\ off[1][1] = 0
    BY <1>11 DEF Laid
  <2>2. places[1][1].start = off[1][1] + 1
    BY <1>5, <2>1
  <2> QED BY <2>1, <2>2
<1>10. LET fin == places[N][L(N)].fin
       IN  IF tail THEN fin = Len(saved) /\ saved[fin] = NewLine ELSE fin = Len(saved) + 1
  <2>1. N \in 1 .. N /\ L(N) \in 1 .. L(N) /\ Len(lines[N]) = L(N)
    BY <1>11
  <2>2. Len(text) = off[N][L(N)] + Len(lines[N][L(N)])
    BY <2>1 DEF Laid
  <2>3. places[N][L(N)].fin = off[N][L(N)] + Len(lines[N][L(N)]) + 1
    BY <1>5, <2>1
  <2>4. places[N][L(N)].fin = Len(text) + 1
    BY <2>2, <2>3
  <2> QED BY <1>13, <2>4
<1> QED BY <1>1, <1>5, <1>7, <1>8, <1>9, <1>10, <1>14 DEF Written

-----------------------------------------------------------------------------
(* The file that is read.                                                   *)

Values == Seq(Chars)
Rows   == Seq(Values)

BlankRow == <<<<" ">>>>

Shape(table, N, products, tail) ==
  /\ N \in Nat \ {0} /\ table \in Seq(Rows) /\ Len(table) = N /\ tail \in BOOLEAN
  /\ N = Len(products) + (IF tail THEN 2 ELSE 1)
  /\ table[1] = Titles("sale_price") \/ table[1] = Titles("Sale Price")
  /\ \A i \in 1 .. Len(products) : table[i + 1] = Cells(products[i])
  /\ tail => table[N] = BlankRow

LEMMA OneIs ==
  ASSUME NEW S, NEW s \in S PROVE <<s>> \in Seq(S) /\ Len(<<s>>) = 1 /\ <<s>>[1] = s
OBVIOUS

LEMMA ListIs ==
  ASSUME NEW S, NEW n \in Nat, NEW s \in [1 .. n -> S] PROVE s \in Seq(S) /\ Len(s) = n
OBVIOUS

LEMMA SeqIs ==
  ASSUME NEW S, NEW s \in Seq(S)
  PROVE  Len(s) \in Nat /\ DOMAIN s = 1 .. Len(s) /\ \A i \in 1 .. Len(s) : s[i] \in S
OBVIOUS

LEMMA SixAre ==
  ASSUME NEW S, NEW a \in S, NEW b \in S, NEW c \in S, NEW d \in S, NEW e \in S, NEW f \in S
  PROVE  <<a, b, c, d, e, f>> \in Seq(S) /\ Len(<<a, b, c, d, e, f>>) = 6
OBVIOUS

LEMMA RowsAre ==
  /\ \A price \in {"sale_price", "Sale Price"} : Titles(price) \in Rows /\ Len(Titles(price)) = 6
  /\ \A product \in Stored : Cells(product) \in Rows /\ Len(Cells(product)) = 6
  /\ BlankRow \in Rows /\ Len(BlankRow) = 1 /\ BlankRow[1] = <<" ">>
<1>1. ASSUME NEW price \in {"sale_price", "Sale Price"}
      PROVE Titles(price) \in Rows /\ Len(Titles(price)) = 6
  <2>1. /\ <<"sku">> \in Values /\ <<"name">> \in Values /\ <<price>> \in Values
        /\ <<"reorder_point">> \in Values /\ <<"description">> \in Values /\ <<"is_active">> \in Values
    <3>1. /\ "sku" \in Chars /\ "name" \in Chars /\ price \in Chars /\ "reorder_point" \in Chars
          /\ "description" \in Chars /\ "is_active" \in Chars
      BY DEF Chars, Words
    <3> QED BY <3>1, OneIs, Zenon DEF Values
  <2> QED BY <2>1, SixAre, Zenon DEF Titles, Rows
<1>2. ASSUME NEW product \in Stored PROVE Cells(product) \in Rows /\ Len(Cells(product)) = 6
  <2>1. product.sku \in Seq({"w"}) /\ product.name \in Seq(Symbols) /\ product.description \in Seq(Symbols)
    BY DEF Stored
  <2>2. {"w"} \subseteq Chars /\ Symbols \subseteq Chars
    BY DEF Chars, Symbols
  <2>3. product.sku \in Values /\ product.name \in Values /\ product.description \in Values
    BY <2>1, <2>2 DEF Values
  <2>4. <<"w">> \in Values
    BY <2>2, OneIs, Zenon DEF Values
  <2> QED BY <2>3, <2>4, SixAre, Zenon DEF Cells, Rows
<1>3. BlankRow \in Rows /\ Len(BlankRow) = 1 /\ BlankRow[1] = <<" ">>
  <2>1. <<" ">> \in Values
    <3>1. " " \in Chars
      BY DEF Chars, Symbols
    <3> QED BY <3>1, OneIs, Zenon DEF Values
  <2> QED BY <2>1, OneIs, Zenon DEF BlankRow, Rows
<1> QED BY <1>1, <1>2, <1>3

LEMMA NextIs ==
  ASSUME NEW n \in Nat PROVE n + 1 \in Nat \ {0}
OBVIOUS

TableWith(title, products) == <<title>> \o [i \in DOMAIN products |-> Cells(products[i])]

LEMMA TableOf ==
  ASSUME NEW products \in Seq(Stored), NEW title \in Rows, Len(title) = 6
  PROVE  LET table == TableWith(title, products)
         IN  /\ table \in Seq(Rows) /\ Len(table) = Len(products) + 1 /\ table[1] = title
             /\ \A i \in 1 .. Len(products) : table[i + 1] = Cells(products[i])
             /\ \A r \in 1 .. Len(products) + 1 : Len(table[r]) = 6
<1> DEFINE body == [i \in DOMAIN products |-> Cells(products[i])]
           head == <<title>>
           N == Len(products)
           table == TableWith(title, products)
<1> HIDE DEF table
<1>1. N \in Nat /\ N = Len(products) /\ DOMAIN products = 1 .. N /\ \A i \in 1 .. N : products[i] \in Stored
  BY SeqIs, Zenon
<1>2. body \in Seq(Rows) /\ Len(body) = N /\ \A i \in 1 .. N : body[i] = Cells(products[i])
  <2>1. DOMAIN body = 1 .. N /\ \A i \in 1 .. N : body[i] = Cells(products[i])
    BY <1>1
  <2>2. \A i \in 1 .. N : Cells(products[i]) \in Rows
    BY <1>1, RowsAre
  <2>3. body \in [1 .. N -> Rows]
    BY <1>1, <2>2, Zenon
  <2>4. body \in Seq(Rows) /\ Len(body) = N
    BY <1>1, <2>3, ListIs, Zenon
  <2> QED BY <2>1, <2>4
<1>3. head \in Seq(Rows) /\ Len(head) = 1 /\ head[1] = title
  BY OneIs, Zenon
<1> HIDE DEF body, head, N
<1>4. table \in Seq(Rows) /\ Concatenates(table, head, body)
  <2>1. table = Cat(head, body)
    BY Zenon DEF TableWith, Cat, head, body, table
  <2> QED BY <1>2, <1>3, <2>1, CatIs, Zenon
<1>6. /\ Len(table) = N + 1 /\ table[1] = title
      /\ \A i \in 1 .. N : table[i + 1] = Cells(products[i])
  <2>1. Len(table) = 1 + N /\ table[1] = title
    <3>1. 1 \in 1 .. Len(head)
      BY <1>3
    <3> QED BY <1>2, <1>3, <1>4, <3>1 DEF Concatenates
  <2>2. ASSUME NEW i \in 1 .. N PROVE table[i + 1] = Cells(products[i])
    <3>1. 1 + i = i + 1 /\ i \in 1 .. Len(body)
      BY <1>1, <1>2
    <3>2. table[Len(head) + i] = body[i]
      BY <1>4, <3>1 DEF Concatenates
    <3> QED BY <1>2, <1>3, <3>1, <3>2
  <2> QED BY <1>1, <2>1, <2>2
<1>8. ASSUME NEW r \in 1 .. N + 1 PROVE Len(table[r]) = 6
  <2>1. CASE r = 1
    BY <1>6, <2>1
  <2>2. CASE r # 1
    <3>1. r - 1 \in 1 .. N /\ r - 1 + 1 = r
      BY <1>1, <2>2
    <3>2. table[r - 1 + 1] = Cells(products[r - 1]) /\ products[r - 1] \in Stored
      BY <1>1, <1>6, <3>1
    <3> QED BY <3>1, <3>2, RowsAre
  <2> QED BY <2>1, <2>2
<1> QED BY <1>4, <1>6, <1>8 DEF N, table

\* The table that is written: the titles and a row of each product.
LEMMA TableIs ==
  ASSUME NEW products \in Seq(Stored), NEW price \in {"sale_price", "Sale Price"}
  PROVE  /\ Shape(Table(price, products), Len(products) + 1, products, FALSE)
         /\ \A r \in 1 .. Len(products) + 1 : Len(Table(price, products)[r]) = 6
<1> DEFINE table == Table(price, products)
           title == Titles(price)
<1>1. title \in Rows /\ Len(title) = 6
  BY RowsAre, Zenon
<1>2. table = TableWith(title, products)
  BY Zenon DEF Table, TableWith
<1>3. title = Titles("sale_price") \/ title = Titles("Sale Price")
  BY Zenon
<1> HIDE DEF table, title
<1>4. /\ table \in Seq(Rows) /\ Len(table) = Len(products) + 1 /\ table[1] = title
      /\ \A i \in 1 .. Len(products) : table[i + 1] = Cells(products[i])
      /\ \A r \in 1 .. Len(products) + 1 : Len(table[r]) = 6
  <2>1. LET t == TableWith(title, products)
        IN  /\ t \in Seq(Rows) /\ Len(t) = Len(products) + 1 /\ t[1] = title
            /\ \A i \in 1 .. Len(products) : t[i + 1] = Cells(products[i])
            /\ \A r \in 1 .. Len(products) + 1 : Len(t[r]) = 6
    BY <1>1, TableOf, Zenon
  <2> QED BY <1>2, <2>1, Zenon
<1>5. Len(products) + 1 \in Nat \ {0}
  BY SeqIs, NextIs, Zenon
<1>6. Shape(table, Len(products) + 1, products, FALSE)
  BY <1>3, <1>4, <1>5, Zenon DEF Shape
<1> QED BY <1>4, <1>6, Zenon DEF table

\* A code of a value: it is the value's cell.
Codes(code, x) ==
  /\ code \in Values
  /\ \E place : CellAt(code, x, place) /\ place.start = 1 /\ place.fin = Len(code) + 1

LEMMA CodesAre ==
  ASSUME NEW x \in Values PROVE Codes(csvCell(x), x) /\ Codes(Quoted(x), x)
<1>1. x \in Seq(Chars) /\ Quote \in Chars
  BY DEF Values, Chars, Symbols
<1>2. Codes(Quoted(x), x)
  BY <1>1, QuotedCell DEF Codes, Values
<1>3. CASE ToSet(x) \cap {Comma, Quote, NewLine} = {}
  <2>1. csvCell(x) = x
    BY <1>3 DEF csvCell
  <2>2. Codes(x, x)
    BY <1>1, <1>3, PlainCell DEF Codes, Values
  <2> QED BY <1>2, <2>1, <2>2
<1>4. CASE ToSet(x) \cap {Comma, Quote, NewLine} # {}
  BY <1>2, <1>4 DEF csvCell
<1> QED BY <1>3, <1>4

\* The text of a table whose cells are written as codes.
LEMMA TextIsWritten ==
  ASSUME NEW table \in Seq(Rows), NEW N \in Nat \ {0}, N = Len(table), \A r \in 1 .. N : Len(table[r]) # 0,
         NEW lines, DOMAIN lines = 1 .. N, NEW separator \in {NewLine, ReturnNewLine},
         \A r \in 1 .. N : /\ lines[r] \in Rows /\ Len(lines[r]) = Len(table[r])
                           /\ \A c \in 1 .. Len(table[r]) : Codes(lines[r][c], table[r][c]),
         NEW saved, NEW tail \in BOOLEAN, Saves(saved, Text(lines, separator), tail)
  PROVE  \E places : Written(saved, table, N, places, tail)
<1> DEFINE X == Chars \cup {NewLine, ReturnNewLine}
           text == Text(lines, separator)
<1>1. Values \subseteq Seq(X) /\ Rows \subseteq Seq(Seq(X))
  <2>1. Seq(Chars) \subseteq Seq(X)
    OBVIOUS
  <2>2. Seq(Values) \subseteq Seq(Seq(X))
    <3> DEFINE Z == Seq(X)
    <3>1. Values \subseteq Z
      BY <2>1 DEF Values
    <3> HIDE DEF Z
    <3>2. Seq(Values) \subseteq Seq(Z)
      BY <3>1
    <3> QED BY <3>2 DEF Z
  <2> QED BY <2>1, <2>2 DEF Values, Rows
<1>2. Comma \in X /\ separator \in X
  BY DEF Chars, Symbols
<1>3. ASSUME NEW r \in 1 .. N
      PROVE  /\ lines[r] \in Seq(Seq(X)) /\ lines[r] # <<>> /\ Len(table[r]) \in Nat \ {0}
             /\ Len(lines[r]) = Len(table[r])
  <2>1. lines[r] \in Rows /\ Len(lines[r]) = Len(table[r]) /\ table[r] \in Rows /\ Len(table[r]) # 0
    OBVIOUS
  <2>2. Len(table[r]) \in Nat
    BY <2>1 DEF Rows
  <2>3. lines[r] # <<>>
    BY <2>1 DEF Rows
  <2> HIDE DEF X
  <2> QED BY <1>1, <2>1, <2>2, <2>3
<1>4. text \in Seq(X) /\ \E off : Laid(text, lines, N, separator, off)
  <2> HIDE DEF X
  <2> QED BY <1>2, <1>3, TextIsLaid
<1>5. Len(text) \in Nat
  <2> HIDE DEF X, text
  <2> QED BY <1>4
<1>6. ASSUME NEW r \in 1 .. N, NEW c \in 1 .. Len(table[r])
      PROVE  /\ Len(table[r][c]) \in Nat /\ lines[r][c] \in Seq(Chars)
             /\ \E place : /\ CellAt(lines[r][c], table[r][c], place)
                           /\ place.start = 1 /\ place.fin = Len(lines[r][c]) + 1
  <2>1. table[r][c] \in Values
    <3>1. table[r] \in Rows
      OBVIOUS
    <3> QED BY <3>1 DEF Rows
  <2>2. Codes(lines[r][c], table[r][c])
    OBVIOUS
  <2>3. Len(table[r][c]) \in Nat
    BY <2>1 DEF Values
  <2> QED BY <2>2, <2>3 DEF Codes, Values
<1>7. PICK off : Laid(text, lines, N, separator, off)
  BY <1>4
<1>8. Saves(saved, text, tail)
  OBVIOUS
<1>9. Coded(lines, table, N)
  BY <1>3, <1>6, Zenon DEF Coded
<1> HIDE DEF text
<1> QED BY <1>5, <1>7, <1>8, <1>9, FileIsWritten, Zenon

LEMMA AppendIs ==
  ASSUME NEW S, NEW s \in Seq(S), NEW e \in S, NEW n, n = Len(s)
  PROVE  /\ Append(s, e) \in Seq(S) /\ Len(Append(s, e)) = n + 1 /\ Append(s, e)[n + 1] = e
         /\ \A i \in 1 .. n : Append(s, e)[i] = s[i]
BY AppendProperties

LEMMA OneInIt ==
  ASSUME NEW s PROVE ToSet(<<s>>) = {s}
BY DEF ToSet

LEMMA LineIs ==
  ASSUME NEW values \in Rows, NEW line, line = [c \in DOMAIN values |-> line[c]],
         \A c \in DOMAIN values : Codes(line[c], values[c])
  PROVE  /\ line \in Rows /\ Len(line) = Len(values)
         /\ \A c \in 1 .. Len(values) : Codes(line[c], values[c])
<1>1. Len(values) \in Nat /\ DOMAIN values = 1 .. Len(values)
  BY SeqIs, Zenon DEF Rows
<1>2. \A c \in DOMAIN values : line[c] \in Values
  BY DEF Codes
<1>3. line \in [1 .. Len(values) -> Values]
  BY <1>1, <1>2, Zenon
<1> QED BY <1>1, <1>3, ListIs, Zenon DEF Rows

LEMMA TextIs ==
  ASSUME NEW N \in Nat \ {0}, NEW lines, DOMAIN lines = 1 .. N, NEW separator \in {NewLine, ReturnNewLine},
         \A r \in 1 .. N : lines[r] \in Rows /\ Len(lines[r]) # 0
  PROVE  Text(lines, separator) \in Seq(Chars \cup {NewLine, ReturnNewLine})
<1> DEFINE X == Chars \cup {NewLine, ReturnNewLine}
<1>1. Rows \subseteq Seq(Seq(X))
  <2> DEFINE Z == Seq(X)
  <2>1. Values \subseteq Z
    BY DEF Values
  <2> HIDE DEF Z
  <2>2. Seq(Values) \subseteq Seq(Z)
    BY <2>1
  <2> QED BY <2>2 DEF Z, Rows
<1>2. Comma \in X /\ separator \in X
  BY DEF Chars, Symbols
<1> HIDE DEF X
<1>3. ASSUME NEW r \in 1 .. N PROVE lines[r] \in Seq(Seq(X)) /\ lines[r] # <<>>
  <2>1. lines[r] \in Rows /\ Len(lines[r]) # 0
    OBVIOUS
  <2>2. lines[r] # <<>>
    BY <2>1 DEF Rows
  <2> QED BY <1>1, <2>1, <2>2
<1>4. Text(lines, separator) \in Seq(X)
  BY <1>2, <1>3, TextIsLaid
<1> QED BY <1>4 DEF X

LEMMA NormalizedIs ==
  ASSUME NEW X, NEW text \in Seq(X)
  PROVE  /\ Saves(Normalized(text), text, FALSE)
         /\ Saves(Normalized(text \o <<ReturnNewLine>>), text, TRUE)
<1> DEFINE n == Len(text)
           norm(t) == [i \in DOMAIN t |-> IF t[i] \in {Return, ReturnNewLine} THEN NewLine ELSE t[i]]
           longer == Cat(text, <<ReturnNewLine>>)
           Y == X \cup {ReturnNewLine}
<1>1. n \in Nat /\ DOMAIN text = 1 .. n
  OBVIOUS
<1>2. Saves(Normalized(text), text, FALSE)
  <2>1. DOMAIN Normalized(text) = 1 .. n
    BY <1>1 DEF Normalized
  <2>2. /\ Normalized(text) = [i \in 1 .. n |-> Normalized(text)[i]]
        /\ \A i \in 1 .. n : Normalized(text)[i] = IF text[i] \in {Return, ReturnNewLine} THEN NewLine ELSE text[i]
    BY <1>1 DEF Normalized
  <2>3. Len(Normalized(text)) = n /\ \E S : Normalized(text) \in Seq(S)
    <3> HIDE DEF n
    <3>1. Normalized(text) \in [1 .. n -> {Normalized(text)[i] : i \in 1 .. n}]
      BY <2>2
    <3> QED BY <1>1, <3>1, ListIs, Zenon
  <2> QED BY <2>2, <2>3 DEF Saves
<1>3. Saves(Normalized(text \o <<ReturnNewLine>>), text, TRUE)
  <2>1. text \in Seq(Y) /\ <<ReturnNewLine>> \in Seq(Y) /\ Len(<<ReturnNewLine>>) = 1 /\ <<ReturnNewLine>>[1] = ReturnNewLine
    OBVIOUS
  <2> DEFINE rnl == <<ReturnNewLine>>
  <2> HIDE DEF Y, rnl
  <2>2. longer \in Seq(Y) /\ Concatenates(longer, text, rnl)
    BY <2>1, CatIs DEF rnl
  <2> HIDE DEF longer
  <2>3. /\ DOMAIN longer = 1 .. n + 1 /\ longer[n + 1] = ReturnNewLine
        /\ \A i \in 1 .. n : longer[i] = text[i]
    <3>1. Len(rnl) = 1 /\ rnl[1] = ReturnNewLine
      BY <2>1 DEF rnl
    <3>2. Len(longer) = n + 1
      BY <2>2, <3>1 DEF Concatenates
    <3>3. DOMAIN longer = 1 .. n + 1
      BY <2>2, <3>2
    <3>4. longer[n + 1] = ReturnNewLine
      <4>1. 1 \in 1 .. Len(rnl)
        BY <3>1
      <4> QED BY <2>2, <3>1, <4>1 DEF Concatenates
    <3> QED BY <2>2, <3>3, <3>4 DEF Concatenates
  <2>4. longer = text \o <<ReturnNewLine>>
    BY Zenon DEF longer, Cat
  <2> DEFINE saved == Normalized(longer)
  <2>5. saved = [i \in 1 .. n + 1 |-> IF longer[i] \in {Return, ReturnNewLine} THEN NewLine ELSE longer[i]]
    BY <2>3, Zenon DEF Normalized
  <2> HIDE DEF saved
  <2>6. /\ saved = [i \in 1 .. n + 1 |-> saved[i]] /\ saved[n + 1] = NewLine
        /\ \A i \in 1 .. n : saved[i] = IF text[i] \in {Return, ReturnNewLine} THEN NewLine ELSE text[i]
    <3>1. n + 1 \in 1 .. n + 1 /\ \A i \in 1 .. n : i \in 1 .. n + 1
      BY <1>1
    <3> HIDE DEF n
    <3>2. \A i \in 1 .. n + 1 : saved[i] = IF longer[i] \in {Return, ReturnNewLine} THEN NewLine ELSE longer[i]
      BY <2>5, Zenon
    <3>3. saved = [i \in 1 .. n + 1 |-> saved[i]]
      BY <2>5, Zenon
    <3> QED BY <2>3, <3>1, <3>2, <3>3
  <2>7. Len(saved) = n + 1 /\ \E S : saved \in Seq(S)
    <3> HIDE DEF n
    <3>1. saved \in [1 .. n + 1 -> {saved[i] : i \in 1 .. n + 1}]
      BY <2>6
    <3>2. n + 1 \in Nat
      BY <1>1
    <3> QED BY <3>1, <3>2, ListIs, Zenon
  <2>8. Saves(saved, text, TRUE)
    BY <2>6, <2>7 DEF Saves
  <2> QED BY <2>4, <2>8 DEF saved
<1> QED BY <1>2, <1>3

\* What the export writes is a written table, and so is what a spreadsheet saves of it.
LEMMA ExportIsWritten ==
  ASSUME NEW products \in Seq(Stored)
  PROVE  \E table, N, places, tail :
           Shape(table, N, products, tail) /\ Written(Normalized(exportProductsCsv(products)), table, N, places, tail)
<1> DEFINE table == Table("sale_price", products)
           lines == [r \in DOMAIN table |-> [c \in DOMAIN table[r] |-> csvCell(table[r][c])]]
           N == Len(products) + 1
           text == Text(lines, NewLine)
<1>1. exportProductsCsv(products) = text
  BY Zenon DEF exportProductsCsv
<1>2. Shape(table, N, products, FALSE) /\ \A r \in 1 .. N : Len(table[r]) = 6
  BY TableIs
<1>3. \A r \in DOMAIN table : lines[r] = [c \in DOMAIN table[r] |-> csvCell(table[r][c])]
  BY Zenon
<1>4. DOMAIN lines = DOMAIN table
  BY Zenon
<1> HIDE DEF table, lines, N, text
<1>5. /\ table \in Seq(Rows) /\ N = Len(table) /\ N \in Nat \ {0}
      /\ DOMAIN table = 1 .. N /\ \A r \in 1 .. N : table[r] \in Rows
  <2>1. table \in Seq(Rows) /\ Len(table) = N /\ N \in Nat \ {0}
    BY <1>2, Zenon DEF Shape
  <2> QED BY <2>1, SeqIs, Zenon
<1>6. ASSUME NEW r \in 1 .. N
      PROVE  /\ lines[r] \in Rows /\ Len(lines[r]) = Len(table[r])
             /\ \A c \in 1 .. Len(table[r]) : Codes(lines[r][c], table[r][c])
  <2>1. lines[r] = [c \in DOMAIN table[r] |-> csvCell(table[r][c])] /\ table[r] \in Rows
    BY <1>3, <1>5, Zenon
  <2>2. ASSUME NEW c \in DOMAIN table[r] PROVE Codes(lines[r][c], table[r][c])
    <3>1. table[r][c] \in Values
      BY <2>1, SeqIs, Zenon DEF Rows
    <3> QED BY <2>1, <3>1, CodesAre, Zenon
  <2>3. lines[r] = [c \in DOMAIN table[r] |-> lines[r][c]]
    BY <2>1, Zenon
  <2> QED BY <2>1, <2>2, <2>3, LineIs, Zenon
<1>7. \A r \in 1 .. N : Len(table[r]) # 0 /\ Len(lines[r]) # 0
  <2> TAKE r \in 1 .. N
  <2>1. 6 # 0
    OBVIOUS
  <2>2. Len(table[r]) = 6 /\ Len(lines[r]) = Len(table[r])
    BY <1>2, <1>6, Zenon
  <2> QED BY <2>1, <2>2, Zenon
<1>8. text \in Seq(Chars \cup {NewLine, ReturnNewLine})
  BY <1>4, <1>5, <1>6, <1>7, TextIs, Zenon DEF text
<1>9. Saves(Normalized(text), text, FALSE)
  BY <1>8, NormalizedIs, Zenon
<1>10. Saves(Normalized(text), text, FALSE) => \E places : Written(Normalized(text), table, N, places, FALSE)
  BY <1>4, <1>5, <1>6, <1>7, TextIsWritten, Zenon DEF text
<1> QED BY <1>1, <1>2, <1>9, <1>10, Zenon

LEMMA SpreadsheetIsWritten ==
  ASSUME NEW products \in Seq(Stored)
  PROVE  \E table, N, places, tail :
           Shape(table, N, products, tail) /\ Written(Normalized(Spreadsheet(products)), table, N, places, tail)
<1> DEFINE body == Table("Sale Price", products)
           quotes == [r \in DOMAIN body |-> [c \in DOMAIN body[r] |-> Quoted(body[r][c])]]
           lines == Append(quotes, BlankRow)
           table == Append(body, BlankRow)
           M == Len(products) + 1
           N == M + 1
           text == Text(lines, ReturnNewLine)
           read == Normalized(text \o <<ReturnNewLine>>)
<1>1. Normalized(Spreadsheet(products)) = read
  BY Zenon DEF Spreadsheet, BlankRow
<1>2. Shape(body, M, products, FALSE) /\ \A r \in 1 .. M : Len(body[r]) = 6
  BY TableIs
<1>3. /\ quotes = [r \in DOMAIN body |-> quotes[r]]
      /\ \A r \in DOMAIN body : quotes[r] = [c \in DOMAIN body[r] |-> Quoted(body[r][c])]
  BY Zenon
<1> HIDE DEF body, quotes, M
<1>4. /\ body \in Seq(Rows) /\ M = Len(body) /\ M \in Nat \ {0} /\ M \in Nat
      /\ DOMAIN body = 1 .. M /\ \A r \in 1 .. M : body[r] \in Rows
  <2>1. body \in Seq(Rows) /\ Len(body) = M /\ M \in Nat \ {0}
    BY <1>2, Zenon DEF Shape
  <2>2. M \in Nat
    BY <2>1
  <2> QED BY <2>1, <2>2, SeqIs, Zenon
<1>5. ASSUME NEW r \in 1 .. M
      PROVE  /\ quotes[r] \in Rows /\ Len(quotes[r]) = Len(body[r])
             /\ \A c \in 1 .. Len(body[r]) : Codes(quotes[r][c], body[r][c])
  <2>1. quotes[r] = [c \in DOMAIN body[r] |-> Quoted(body[r][c])] /\ body[r] \in Rows
    BY <1>3, <1>4, Zenon
  <2>2. ASSUME NEW c \in DOMAIN body[r] PROVE Codes(quotes[r][c], body[r][c])
    <3>1. body[r][c] \in Values
      BY <2>1, SeqIs, Zenon DEF Rows
    <3> QED BY <2>1, <3>1, CodesAre, Zenon
  <2>3. quotes[r] = [c \in DOMAIN body[r] |-> quotes[r][c]]
    BY <2>1, Zenon
  <2> QED BY <2>1, <2>2, <2>3, LineIs, Zenon
<1>6. quotes \in Seq(Rows) /\ Len(quotes) = M
  <2>1. quotes \in [1 .. M -> Rows]
    BY <1>3, <1>4, <1>5, Zenon
  <2> QED BY <1>4, <2>1, ListIs, Zenon
<1>7. /\ table \in Seq(Rows) /\ Len(table) = M + 1 /\ table[M + 1] = BlankRow
      /\ \A r \in 1 .. M : table[r] = body[r]
  <2>1. BlankRow \in Rows /\ body \in Seq(Rows) /\ M = Len(body)
    BY <1>4, RowsAre, Zenon
  <2> QED BY <2>1, AppendIs
<1>8. /\ lines \in Seq(Rows) /\ Len(lines) = M + 1 /\ lines[M + 1] = BlankRow
      /\ \A r \in 1 .. M : lines[r] = quotes[r]
  <2>1. BlankRow \in Rows /\ quotes \in Seq(Rows) /\ M = Len(quotes)
    BY <1>6, RowsAre, Zenon
  <2> QED BY <2>1, AppendIs
<1> HIDE DEF lines, table, text
<1>9. N \in Nat \ {0} /\ DOMAIN lines = 1 .. N /\ N = Len(table) /\ \A r \in 1 .. N : r \in 1 .. M \/ r = M + 1
  <2>1. N \in Nat \ {0} /\ \A r \in 1 .. N : r \in 1 .. M \/ r = M + 1
    BY <1>4
  <2> QED BY <1>7, <1>8, <2>1, SeqIs, Zenon
<1>10. Codes(<<" ">>, <<" ">>)
  <2>1. <<" ">> \in Values
    <3>1. " " \in Chars
      BY DEF Chars, Symbols
    <3> QED BY <3>1, OneIs, Zenon DEF Values
  <2>2. csvCell(<<" ">>) = <<" ">>
    <3>1. ToSet(<<" ">>) \cap {Comma, Quote, NewLine} = {}
      <4>1. ToSet(<<" ">>) = {" "}
        BY OneInIt, Zenon
      <4>2. " " \notin {Comma, Quote, NewLine}
        BY DEF Comma, Quote, NewLine
      <4> QED BY <4>1, <4>2
    <3> QED BY <3>1, Zenon DEF csvCell
  <2>3. Codes(csvCell(<<" ">>), <<" ">>)
    BY <2>1, CodesAre, Zenon
  <2> QED BY <2>2, <2>3, Zenon
<1>11. ASSUME NEW r \in 1 .. N
       PROVE  /\ lines[r] \in Rows /\ Len(lines[r]) = Len(table[r])
              /\ \A c \in 1 .. Len(table[r]) : Codes(lines[r][c], table[r][c])
              /\ Len(table[r]) # 0 /\ Len(lines[r]) # 0
  <2>1. CASE r \in 1 .. M
    <3>1. lines[r] = quotes[r] /\ table[r] = body[r] /\ Len(body[r]) = 6
      BY <1>2, <1>7, <1>8, <2>1, Zenon
    <3>2. 6 # 0
      OBVIOUS
    <3> QED BY <1>5, <2>1, <3>1, <3>2, Zenon
  <2>2. CASE r = M + 1
    <3>1. lines[r] = BlankRow /\ table[r] = BlankRow
      BY <1>7, <1>8, <2>2, Zenon
    <3>2. 1 # 0 /\ \A c \in 1 .. 1 : c = 1
      OBVIOUS
    <3> QED BY <1>10, <3>1, <3>2, RowsAre, Zenon
  <2> QED BY <1>9, <2>1, <2>2, Zenon
<1>12. text \in Seq(Chars \cup {NewLine, ReturnNewLine})
  <2> HIDE DEF N
  <2> QED BY <1>9, <1>11, TextIs, Zenon DEF text
<1>13. Saves(read, text, TRUE)
  BY <1>12, NormalizedIs, Zenon
<1>14. \E places : Written(read, table, N, places, TRUE)
  <2> HIDE DEF N, read
  <2> QED BY <1>7, <1>9, <1>11, <1>13, TextIsWritten, Zenon DEF text
<1>15. Shape(table, N, products, TRUE)
  <2>1. N = Len(products) + 2
    <3>1. Len(products) \in Nat
      BY SeqIs, Zenon
    <3> QED BY <3>1 DEF M
  <2>2. table[1] = Titles("sale_price") \/ table[1] = Titles("Sale Price")
    <3>1. 1 \in 1 .. M
      BY <1>4
    <3> QED BY <1>2, <1>7, <3>1, Zenon DEF Shape
  <2>3. ASSUME NEW i \in 1 .. Len(products) PROVE table[i + 1] = Cells(products[i])
    <3>1. i + 1 \in 1 .. M
      <4>1. Len(products) \in Nat
        BY SeqIs, Zenon
      <4> QED BY <4>1 DEF M
    <3> QED BY <1>2, <1>7, <3>1, Zenon DEF Shape
  <2>4. table[N] = BlankRow
    BY <1>7, Zenon
  <2> HIDE DEF N
  <2> QED BY <1>7, <1>9, <2>1, <2>2, <2>3, <2>4, Zenon DEF Shape
<1> QED BY <1>1, <1>14, <1>15, Zenon

-----------------------------------------------------------------------------
(* Reading.  The parser is in a cell, after k of its symbols.                *)

\* What is left of a text that was written.
LeftOf(text) ==
  /\ Len(text) \in Nat /\ Len(normalized) \in Nat /\ Len(normalized) <= Len(text)
  /\ \E S : normalized \in Seq(S)
  /\ DOMAIN normalized = 1 .. Len(normalized)
  /\ \A i \in 1 .. Len(normalized) : normalized[i] = text[i]
  /\ cut \in BOOLEAN /\ (~cut <=> Len(normalized) = Len(text))

In(table, r, c, k) ==
  /\ records = SubSeq(table, 1, r - 1) /\ row = SubSeq(table[r], 1, c - 1)
  /\ cell = SubSeq(table[r][c], 1, k)

InCell(x, place, k) ==
  \/ place.wrapped /\ quoted /\ index = place.pos[k]
  \/ place.wrapped /\ ~quoted /\ k = 0 /\ index = place.start
  \/ ~quoted /\ k = Len(x) /\ index = place.fin
  \/ ~place.wrapped /\ ~quoted /\ index = place.pos[k]

\* What it reads next.
Opens(text, place, k) ==
  ~quoted /\ k = 0 /\ place.wrapped /\ text[index] = Quote /\ index + 1 = place.pos[0]
Symbol(text, x, place, k) ==
  /\ k < Len(x) /\ text[index] = x[k + 1]
  /\ \/ /\ ~quoted /\ ~place.wrapped /\ place.pos[k + 1] = index + 1
        /\ x[k + 1] \notin {Comma, Quote, NewLine}
     \/ /\ quoted /\ place.wrapped /\ x[k + 1] # Quote /\ place.pos[k + 1] = index + 1
     \/ /\ quoted /\ place.wrapped /\ x[k + 1] = Quote /\ place.pos[k + 1] = index + 2
        /\ index + 1 <= Len(text) /\ text[index + 1] = Quote
Closes(text, x, place, k) ==
  quoted /\ k = Len(x) /\ place.wrapped /\ text[index] = Quote /\ index + 1 = place.fin
Ends(x, place, k) == ~quoted /\ k = Len(x) /\ index = place.fin

\* In a cell, the next symbol opens it, is one of its value, closes it, or comes after it.
LEMMA WhatIsNext ==
  ASSUME NEW text, NEW x, Len(x) \in Nat, NEW place, CellAt(text, x, place),
         NEW k \in 0 .. Len(x), InCell(x, place, k), quoted \in BOOLEAN
  PROVE  \/ Opens(text, place, k) \/ Symbol(text, x, place, k)
         \/ Closes(text, x, place, k) \/ Ends(x, place, k)
<1>1. /\ place.start \in Nat \ {0} /\ place.fin \in Nat
      /\ \A j \in 0 .. Len(x) : place.pos[j] \in Nat
      /\ place.wrapped \in BOOLEAN
  BY DEF CellAt
<1>2. ASSUME k < Len(x)
      PROVE  /\ k + 1 \in 1 .. Len(x) /\ k + 1 - 1 = k
             /\ place.pos[k] \in Nat /\ text[place.pos[k]] = x[k + 1]
  <2>1. k + 1 \in 1 .. Len(x) /\ k + 1 - 1 = k
    BY <1>2
  <2>2. text[place.pos[k + 1 - 1]] = x[k + 1]
    BY <2>1 DEF CellAt
  <2> QED BY <1>1, <2>1, <2>2
<1>3. CASE AsItIs(x, place)
  <2>1. ~place.wrapped /\ place.pos[0] = place.start /\ place.fin = place.pos[Len(x)]
    BY <1>3 DEF AsItIs
  <2>2. CASE Ends(x, place, k)
    BY <2>2
  <2>3. CASE ~Ends(x, place, k)
    <3>1. ~quoted /\ index = place.pos[k] /\ k # Len(x)
      BY <2>1, <2>3 DEF InCell, Ends
    <3>2. k < Len(x)
      BY <3>1
    <3>3. text[index] = x[k + 1]
      BY <1>2, <3>1, <3>2
    <3>4. place.pos[k + 1] = place.pos[k + 1 - 1] + 1 /\ x[k + 1] \notin {Comma, Quote, NewLine}
      BY <1>2, <1>3, <3>2 DEF AsItIs
    <3>5. place.pos[k + 1] = index + 1
      BY <1>2, <3>1, <3>2, <3>4
    <3> QED BY <2>1, <3>1, <3>2, <3>3, <3>4, <3>5 DEF Symbol
  <2> QED BY <2>2, <2>3
<1>4. CASE InQuotes(text, x, place)
  <2>1. /\ place.wrapped /\ place.pos[0] = place.start + 1 /\ place.fin = place.pos[Len(x)] + 1
        /\ text[place.start] = Quote /\ text[place.pos[Len(x)]] = Quote
    BY <1>4 DEF InQuotes
  <2>2. CASE ~quoted /\ k = 0 /\ index = place.start
    BY <2>1, <2>2 DEF Opens
  <2>3. CASE ~quoted /\ k = Len(x) /\ index = place.fin
    BY <2>3 DEF Ends
  <2>4. CASE quoted /\ index = place.pos[k] /\ k = Len(x)
    BY <2>1, <2>4 DEF Closes
  <2>5. CASE quoted /\ index = place.pos[k] /\ k # Len(x)
    <3>1. k < Len(x)
      BY <2>5
    <3>2. text[index] = x[k + 1]
      BY <1>2, <2>5, <3>1
    <3>3. PICK n : n = k + 1
      OBVIOUS
    <3>4. n \in 1 .. Len(x) /\ n - 1 = k /\ x[n] = x[k + 1]
      BY <1>2, <3>1, <3>3
    <3>5. CASE x[k + 1] # Quote
      <4>1. place.pos[n] = place.pos[n - 1] + 1
        BY <1>4, <3>4, <3>5, Zenon DEF InQuotes
      <4>2. place.pos[k + 1] = index + 1
        BY <1>2, <2>5, <3>3, <3>4, <4>1
      <4> QED BY <2>1, <2>5, <3>1, <3>2, <3>5, <4>2 DEF Symbol
    <3>6. CASE x[k + 1] = Quote
      <4>1. /\ place.pos[n] = place.pos[n - 1] + 2
            /\ place.pos[n - 1] + 1 <= Len(text) /\ text[place.pos[n - 1] + 1] = Quote
        BY <1>4, <3>4, <3>6, Zenon DEF InQuotes
      <4>2. place.pos[k + 1] = index + 2 /\ index + 1 <= Len(text) /\ text[index + 1] = Quote
        BY <1>2, <2>5, <3>3, <3>4, <4>1
      <4> QED BY <2>1, <2>5, <3>1, <3>2, <3>6, <4>2 DEF Symbol
    <3> QED BY <3>5, <3>6
  <2> QED BY <2>1, <2>2, <2>3, <2>4, <2>5 DEF InCell
<1> QED BY <1>3, <1>4 DEF CellAt

Inside(table, N, places) ==
  \E r \in 1 .. N : \E c \in 1 .. Len(table[r]) : \E k \in 0 .. Len(table[r][c]) :
    /\ In(table, r, c, k)
    /\ InCell(table[r][c], places[r][c], k) \/ (cut /\ index > Len(normalized))
AllRead(text, table, tail) ==
  /\ tail /\ ~cut /\ ~quoted /\ index = Len(text) + 1
  /\ records = table /\ row = <<>> /\ cell = <<>>

File(text, table, N, places, tail) ==
  /\ exported \in Seq(Stored) /\ Shape(table, N, exported, tail)
  /\ Written(text, table, N, places, tail)
Parsing(text, table, N, places, tail) ==
  /\ LeftOf(text) /\ quoted \in BOOLEAN /\ index \in Nat \ {0}
  /\ Inside(table, N, places) \/ AllRead(text, table, tail)

LEMMA ValuesAre ==
  ASSUME NEW table \in Seq(Rows), NEW N, N = Len(table), NEW r \in 1 .. N, NEW c \in 1 .. Len(table[r])
  PROVE  /\ table[r] \in Rows /\ Len(table[r]) \in Nat /\ table[r][c] \in Values
         /\ Len(table[r][c]) \in Nat
<1>1. table[r] \in Rows
  BY SeqIs, Zenon
<1>2. Len(table[r]) \in Nat /\ table[r][c] \in Values
  BY <1>1, SeqIs, Zenon DEF Rows
<1> QED BY <1>1, <1>2, SeqIs, Zenon DEF Values

LEMMA PrefixIs ==
  ASSUME NEW S, NEW s \in Seq(S)
  PROVE  /\ SubSeq(s, 1, 0) = <<>> /\ SubSeq(s, 1, Len(s)) = s
         /\ \A i \in 1 .. Len(s) : SubSeq(s, 1, i) = Append(SubSeq(s, 1, i - 1), s[i])
<1>1. SubSeq(s, 1, 0) = <<>> /\ SubSeq(s, 1, Len(s)) = s
  BY SubSeqEmpty, SubSeqFull
<1>2. ASSUME NEW i \in 1 .. Len(s) PROVE SubSeq(s, 1, i) = Append(SubSeq(s, 1, i - 1), s[i])
  <2>1. 1 \in 1 .. Len(s) /\ i \in 1 .. Len(s) /\ i - 1 \in Int /\ Len(s) \in Nat
    OBVIOUS
  <2>2. SubSeq(s, 1, i) = SubSeq(s, 1, i - 1) \o <<s[i]>>
    BY <2>1, SubSeqRecursiveSecond
  <2>3. SubSeq(s, 1, i - 1) \in Seq(S) /\ s[i] \in S
    <3>1. \A j \in 1 .. i - 1 : s[j] \in S
      BY <2>1
    <3> QED BY <2>1, <3>1, SubSeqProperties
  <2>4. Append(SubSeq(s, 1, i - 1), s[i]) = SubSeq(s, 1, i - 1) \o <<s[i]>>
    BY <2>3, AppendIsConcat
  <2> QED BY <2>2, <2>4
<1> QED BY <1>1, <1>2

LEMMA TakesSymbol ==
  ASSUME NEW table \in Seq(Rows), NEW N, N = Len(table), NEW r \in 1 .. N, NEW c \in 1 .. Len(table[r]),
         NEW k \in 0 .. Len(table[r][c]), k < Len(table[r][c]), In(table, r, c, k),
         cell' = Append(cell, table[r][c][k + 1]), UNCHANGED <<row, records>>
  PROVE  k + 1 \in 0 .. Len(table[r][c]) /\ In(table, r, c, k + 1)'
<1> DEFINE x == table[r][c]
<1>1. x \in Seq(Chars) /\ Len(x) \in Nat
  BY ValuesAre, Zenon DEF Values
<1> HIDE DEF x
<1>2. k + 1 \in 1 .. Len(x) /\ k + 1 \in 0 .. Len(x) /\ k + 1 - 1 = k
  BY <1>1 DEF x
<1>3. SubSeq(x, 1, k + 1) = Append(SubSeq(x, 1, k + 1 - 1), x[k + 1])
  BY <1>1, <1>2, PrefixIs
<1>4. cell' = SubSeq(x, 1, k + 1)
  BY <1>2, <1>3 DEF In, x
<1> QED BY <1>2, <1>4 DEF In, x

\* A parser that has a symbol left is in a cell.
LEMMA Here ==
  ASSUME NEW text, NEW table, NEW N, NEW places, NEW tail,
         Parsing(text, table, N, places, tail), At(index) # "end"
  PROVE  /\ index \in 1 .. Len(normalized) /\ At(index) = text[index]
         /\ \E r \in 1 .. N : \E c \in 1 .. Len(table[r]) : \E k \in 0 .. Len(table[r][c]) :
              In(table, r, c, k) /\ InCell(table[r][c], places[r][c], k)
<1>1. index \in 1 .. Len(normalized) /\ At(index) = text[index]
  BY DEF Parsing, LeftOf, At
<1>2. ~(index > Len(normalized)) /\ ~AllRead(text, table, tail)
  BY <1>1 DEF Parsing, LeftOf, AllRead
<1>3. Inside(table, N, places)
  BY <1>2 DEF Parsing
<1> QED BY <1>1, <1>2, <1>3, Zenon DEF Inside

LEMMA OneIsNot0 == 1 \in Nat \ {0} /\ 6 \in Nat \ {0}
OBVIOUS

LEMMA BeforeLast ==
  ASSUME NEW n \in Nat, NEW N, NEW r \in 1 .. N, NEW tail \in BOOLEAN,
         tail => N = n + 2 /\ r # N, ~tail => N = n + 1
  PROVE  r = 1 \/ (r - 1 \in 1 .. n /\ r - 1 + 1 = r)
OBVIOUS

LEMMA RowSizes ==
  ASSUME NEW table, NEW N, NEW products \in Seq(Stored), NEW tail, Shape(table, N, products, tail),
         NEW r \in 1 .. N
  PROVE  /\ table[r] \in Rows /\ Len(table[r]) \in Nat \ {0}
         /\ tail /\ r = N => table[r] = BlankRow /\ Len(table[r]) = 1
         /\ ~(tail /\ r = N) => Len(table[r]) = 6
<1>1. /\ N \in Nat \ {0} /\ table \in Seq(Rows) /\ Len(table) = N /\ tail \in BOOLEAN
      /\ N = Len(products) + (IF tail THEN 2 ELSE 1)
      /\ table[1] = Titles("sale_price") \/ table[1] = Titles("Sale Price")
      /\ \A i \in 1 .. Len(products) : table[i + 1] = Cells(products[i])
      /\ tail => table[N] = BlankRow
  BY Zenon DEF Shape
<1>2. Len(products) \in Nat /\ \A i \in 1 .. Len(products) : products[i] \in Stored
  BY SeqIs, Zenon
<1>3. Len(BlankRow) = 1 /\ Len(Titles("sale_price")) = 6 /\ Len(Titles("Sale Price")) = 6
  <2>1. "sale_price" \in {"sale_price", "Sale Price"} /\ "Sale Price" \in {"sale_price", "Sale Price"}
    OBVIOUS
  <2> QED BY <2>1, RowsAre, Zenon
<1>4. CASE tail /\ r = N
  <2>1. Len(table[r]) = 1
    BY <1>1, <1>3, <1>4, Zenon
  <2> QED BY <1>1, <1>4, <2>1, SeqIs, OneIsNot0, Zenon
<1>5. CASE ~(tail /\ r = N)
  <2>1. r = 1 \/ (r - 1 \in 1 .. Len(products) /\ r - 1 + 1 = r)
    <3>1. /\ N \in Nat /\ tail \in BOOLEAN /\ (tail => N = Len(products) + 2 /\ r # N)
          /\ (~tail => N = Len(products) + 1)
      BY <1>1, <1>5, Zenon
    <3> QED BY <1>2, <3>1, BeforeLast, Zenon
  <2>2. Len(table[r]) = 6
    <3>1. CASE r = 1
      BY <1>1, <1>3, <3>1, Zenon
    <3>2. CASE r - 1 \in 1 .. Len(products) /\ r - 1 + 1 = r
      <4>1. table[r - 1 + 1] = Cells(products[r - 1]) /\ products[r - 1] \in Stored
        BY <1>1, <1>2, <3>2, Zenon
      <4> QED BY <3>2, <4>1, RowsAre, Zenon
    <3> QED BY <2>1, <3>1, <3>2, Zenon
  <2> QED BY <1>1, <1>5, <2>2, SeqIs, OneIsNot0, Zenon
<1> QED BY <1>4, <1>5, Zenon

\* What ends a cell tells whether the next one is in the same row.
LEMMA AfterEnd ==
  ASSUME NEW text, NEW table, NEW N, NEW places, NEW tail \in BOOLEAN, File(text, table, N, places, tail),
         NEW r \in 1 .. N, NEW c \in 1 .. Len(table[r]),
         NEW fin, fin = places[r][c].fin
  PROVE  /\ fin <= Len(text) => text[fin] \in {Comma, NewLine}
         /\ fin <= Len(text) /\ text[fin] = Comma =>
              c + 1 \in 1 .. Len(table[r]) /\ places[r][c + 1].start = fin + 1
         /\ fin <= Len(text) /\ text[fin] = NewLine =>
              /\ c = Len(table[r])
              /\ \/ r + 1 \in 1 .. N /\ 1 \in 1 .. Len(table[r + 1]) /\ places[r + 1][1].start = fin + 1
                 \/ r = N /\ tail /\ fin = Len(text)
         /\ fin <= Len(text) \/ (r = N /\ c = Len(table[N]) /\ ~tail /\ fin = Len(text) + 1)
<1>1. /\ N \in Nat \ {0} /\ Len(text) \in Nat
      /\ \A q \in 1 .. N : Len(table[q]) \in Nat \ {0}
  BY RowSizes DEF File, Shape, Written
<1>2. Comma # NewLine
  BY DEF Comma, NewLine
<1>3. CASE c # Len(table[r])
  <2>1. c \in 1 .. Len(table[r]) - 1 /\ c + 1 \in 1 .. Len(table[r])
    BY <1>1, <1>3
  <2>2. fin <= Len(text) /\ text[fin] = Comma /\ places[r][c + 1].start = fin + 1
    BY <2>1 DEF File, Written
  <2> QED BY <1>2, <2>1, <2>2
<1>4. CASE c = Len(table[r]) /\ r # N
  <2>1. r \in 1 .. N - 1 /\ r + 1 \in 1 .. N
    BY <1>1, <1>4
  <2>2. fin <= Len(text) /\ text[fin] = NewLine /\ places[r + 1][1].start = fin + 1
    BY <1>4, <2>1 DEF File, Written
  <2>3. 1 \in 1 .. Len(table[r + 1])
    BY <1>1, <2>1
  <2> QED BY <1>2, <1>4, <2>1, <2>2, <2>3
<1>5. CASE c = Len(table[r]) /\ r = N
  <2>1. IF tail THEN fin = Len(text) /\ text[fin] = NewLine ELSE fin = Len(text) + 1
    BY <1>5 DEF File, Written
  <2> QED BY <1>1, <1>2, <1>5, <2>1
<1> QED BY <1>3, <1>4, <1>5

InACell(table, N, places) ==
  \E r \in 1 .. N : \E c \in 1 .. Len(table[r]) : \E k \in 0 .. Len(table[r][c]) :
    In(table, r, c, k) /\ InCell(table[r][c], places[r][c], k)
NextIn(text, table, N, places) ==
  \E r, c, k :
    /\ r \in 1 .. N /\ c \in 1 .. Len(table[r]) /\ k \in 0 .. Len(table[r][c])
    /\ In(table, r, c, k) /\ CellAt(text, table[r][c], places[r][c])
    /\ \/ Opens(text, places[r][c], k) \/ Symbol(text, table[r][c], places[r][c], k)
       \/ Closes(text, table[r][c], places[r][c], k) \/ Ends(table[r][c], places[r][c], k)

LEMMA HereIsCell ==
  ASSUME NEW text, NEW table, NEW N, NEW places, NEW tail \in BOOLEAN, File(text, table, N, places, tail),
         quoted \in BOOLEAN, InACell(table, N, places)
  PROVE  NextIn(text, table, N, places)
<1>2. PICK r \in 1 .. N : \E c \in 1 .. Len(table[r]) : \E k \in 0 .. Len(table[r][c]) :
        In(table, r, c, k) /\ InCell(table[r][c], places[r][c], k)
  BY DEF InACell
<1>3. PICK c \in 1 .. Len(table[r]) : \E k \in 0 .. Len(table[r][c]) :
        In(table, r, c, k) /\ InCell(table[r][c], places[r][c], k)
  BY <1>2
<1>4. PICK k \in 0 .. Len(table[r][c]) : In(table, r, c, k) /\ InCell(table[r][c], places[r][c], k)
  BY <1>3
<1>5. table \in Seq(Rows) /\ N = Len(table) /\ CellAt(text, table[r][c], places[r][c])
  BY Zenon DEF File, Shape, Written
<1>6. Len(table[r][c]) \in Nat
  BY <1>5, ValuesAre, Zenon
<1>7. \/ Opens(text, places[r][c], k) \/ Symbol(text, table[r][c], places[r][c], k)
      \/ Closes(text, table[r][c], places[r][c], k) \/ Ends(table[r][c], places[r][c], k)
  BY <1>4, <1>5, <1>6, WhatIsNext, Zenon
<1> QED BY <1>4, <1>5, <1>7, Zenon DEF NextIn

LEMMA HereIsNext ==
  ASSUME NEW text, NEW table, NEW N, NEW places, NEW tail \in BOOLEAN, File(text, table, N, places, tail),
         Parsing(text, table, N, places, tail), At(index) # "end"
  PROVE  /\ index \in 1 .. Len(normalized) /\ At(index) = text[index] /\ index \in Nat
         /\ NextIn(text, table, N, places)
<1>1. index \in 1 .. Len(normalized) /\ At(index) = text[index] /\ InACell(table, N, places)
  BY Here DEF InACell
<1>2. quoted \in BOOLEAN /\ index \in Nat
  BY DEF Parsing
<1>3. NextIn(text, table, N, places)
  BY <1>1, <1>2, HereIsCell, Zenon
<1> QED BY <1>1, <1>2, <1>3

\* While the place is right, so is all that is known of the parser.
LEMMA Continues ==
  ASSUME NEW text, NEW table, NEW N, NEW places, NEW tail, Parsing(text, table, N, places, tail),
         UNCHANGED <<normalized, cut>>, index' \in Nat \ {0}, quoted' \in BOOLEAN,
         NEW r \in 1 .. N, NEW c \in 1 .. Len(table[r]), NEW k \in 0 .. Len(table[r][c]),
         In(table, r, c, k)',
         InCell(table[r][c], places[r][c], k)' \/ (cut /\ index' > Len(normalized))
  PROVE  Parsing(text, table, N, places, tail)'
<1>1. LeftOf(text)'
  BY Zenon DEF Parsing, LeftOf
<1>2. Inside(table, N, places)'
  BY Zenon DEF Inside
<1> QED BY <1>1, <1>2, Zenon DEF Parsing

LEMMA Symbols3 == Quote # "end" /\ Comma # "end" /\ NewLine # "end" /\ Quote # Comma /\ Quote # NewLine /\ Comma # NewLine
BY DEF Quote, Comma, NewLine

\* Of a doubled quote the second one is missing only where the file was cut.
LEMMA NextSymbol ==
  ASSUME NEW text, LeftOf(text), index \in Nat, At(index + 1) # Quote, index + 1 <= Len(text),
         text[index + 1] = Quote
  PROVE  cut /\ index + 1 > Len(normalized)
BY DEF LeftOf, At

LEMMA AtNext ==
  ASSUME NEW text, LeftOf(text), index \in Nat, At(index + 1) = Quote
  PROVE  index + 1 <= Len(text) /\ text[index + 1] = Quote
<1>1. index + 1 \in DOMAIN normalized
  BY Symbols3 DEF At
<1>2. At(index + 1) = normalized[index + 1]
  BY <1>1 DEF At
<1> QED BY <1>1, <1>2 DEF LeftOf

\* Every branch of parseCsv leaves the parser in the right place.
LEMMA EscapedQuoteReads ==
  ASSUME NEW text, NEW table, NEW N, NEW places, NEW tail \in BOOLEAN, File(text, table, N, places, tail),
         Parsing(text, table, N, places, tail), EscapedQuote
  PROVE  Parsing(text, table, N, places, tail)'
<1>1. /\ At(index) = Quote /\ At(index) # "end" /\ quoted /\ At(index + 1) = Quote
      /\ cell' = Append(cell, Quote) /\ index' = index + 2
      /\ UNCHANGED <<row, records>> /\ UNCHANGED <<normalized, cut>> /\ quoted' = quoted
  BY Symbols3 DEF EscapedQuote, Parses
<1>2. PICK r, c, k :
        /\ r \in 1 .. N /\ c \in 1 .. Len(table[r]) /\ k \in 0 .. Len(table[r][c])
        /\ In(table, r, c, k) /\ CellAt(text, table[r][c], places[r][c])
        /\ \/ Opens(text, places[r][c], k) \/ Symbol(text, table[r][c], places[r][c], k)
           \/ Closes(text, table[r][c], places[r][c], k) \/ Ends(table[r][c], places[r][c], k)
  BY <1>1, HereIsNext DEF NextIn
<1>3. text[index] = Quote /\ index \in Nat /\ LeftOf(text) /\ quoted \in BOOLEAN
  BY <1>1, HereIsNext, Zenon DEF Parsing
<1>4. index + 1 <= Len(text) /\ text[index + 1] = Quote
  BY <1>1, <1>3, AtNext
<1>5. ~Closes(text, table[r][c], places[r][c], k)
  <2>1. places[r][c].fin <= Len(text) => text[places[r][c].fin] \in {Comma, NewLine}
    BY <1>2, AfterEnd
  <2>2. places[r][c].fin = index + 1 => FALSE
    BY <1>4, <2>1, Symbols3
  <2> QED BY <2>2 DEF Closes
<1>6. /\ k < Len(table[r][c]) /\ table[r][c][k + 1] = Quote /\ places[r][c].wrapped
      /\ places[r][c].pos[k + 1] = index + 2
  BY <1>1, <1>2, <1>3, <1>5 DEF Symbol, Opens, Ends
<1>7. table \in Seq(Rows) /\ N = Len(table)
  BY Zenon DEF File, Shape
<1>8. k + 1 \in 0 .. Len(table[r][c]) /\ In(table, r, c, k + 1)'
  BY <1>1, <1>2, <1>6, <1>7, TakesSymbol
<1>9. InCell(table[r][c], places[r][c], k + 1)'
  BY <1>1, <1>6 DEF InCell
<1>10. index' \in Nat \ {0} /\ quoted' \in BOOLEAN
  BY <1>1, <1>3
<1> QED BY <1>1, <1>2, <1>8, <1>9, <1>10, Continues

LEMMA ClosingQuoteReads ==
  ASSUME NEW text, NEW table, NEW N, NEW places, NEW tail \in BOOLEAN, File(text, table, N, places, tail),
         Parsing(text, table, N, places, tail), ClosingQuote
  PROVE  Parsing(text, table, N, places, tail)'
<1>1. /\ At(index) = Quote /\ At(index) # "end" /\ quoted /\ At(index + 1) # Quote
      /\ quoted' = FALSE /\ index' = index + 1
      /\ UNCHANGED <<cell, row, records>> /\ UNCHANGED <<normalized, cut>>
  BY Symbols3 DEF ClosingQuote, Parses
<1>2. PICK r, c, k :
        /\ r \in 1 .. N /\ c \in 1 .. Len(table[r]) /\ k \in 0 .. Len(table[r][c])
        /\ In(table, r, c, k) /\ CellAt(text, table[r][c], places[r][c])
        /\ \/ Opens(text, places[r][c], k) \/ Symbol(text, table[r][c], places[r][c], k)
           \/ Closes(text, table[r][c], places[r][c], k) \/ Ends(table[r][c], places[r][c], k)
  BY <1>1, HereIsNext DEF NextIn
<1>3. /\ text[index] = At(index) /\ index \in Nat /\ index \in 1 .. Len(normalized)
      /\ LeftOf(text) /\ quoted \in BOOLEAN
  BY <1>1, HereIsNext, Zenon DEF Parsing
<1>4. index <= Len(text) /\ table \in Seq(Rows) /\ N = Len(table)
  <2>1. index <= Len(text)
    BY <1>3 DEF LeftOf
  <2>2. table \in Seq(Rows) /\ N = Len(table)
    BY Zenon DEF File, Shape
  <2> QED BY <2>1, <2>2
<1>5. In(table, r, c, k)'
  BY <1>1, <1>2, Zenon DEF In
<1>8. index' \in Nat \ {0} /\ quoted' \in BOOLEAN
  <2>1. index + 1 \in Nat \ {0}
    BY <1>3
  <2> QED BY <1>1, <2>1, Zenon
<1>6. CASE Closes(text, table[r][c], places[r][c], k)
  <2>1. InCell(table[r][c], places[r][c], k)'
    BY <1>1, <1>6 DEF Closes, InCell
  <2> QED BY <1>1, <1>2, <1>5, <1>8, <2>1, Continues, Zenon
<1>7. CASE Symbol(text, table[r][c], places[r][c], k)
  <2>1. index + 1 <= Len(text) /\ text[index + 1] = Quote
    BY <1>1, <1>3, <1>7 DEF Symbol
  <2>2. cut /\ index' > Len(normalized)
    BY <1>1, <1>3, <2>1, NextSymbol
  <2> QED BY <1>1, <1>2, <1>5, <1>8, <2>2, Continues, Zenon
<1> QED BY <1>1, <1>2, <1>6, <1>7 DEF Opens, Ends

LEMMA OpeningQuoteReads ==
  ASSUME NEW text, NEW table, NEW N, NEW places, NEW tail \in BOOLEAN, File(text, table, N, places, tail),
         Parsing(text, table, N, places, tail), OpeningQuote
  PROVE  Parsing(text, table, N, places, tail)'
<1>1. /\ At(index) = Quote /\ At(index) # "end" /\ ~quoted
      /\ quoted' = TRUE /\ index' = index + 1
      /\ UNCHANGED <<cell, row, records>> /\ UNCHANGED <<normalized, cut>>
  BY Symbols3 DEF OpeningQuote, Parses
<1>2. PICK r, c, k :
        /\ r \in 1 .. N /\ c \in 1 .. Len(table[r]) /\ k \in 0 .. Len(table[r][c])
        /\ In(table, r, c, k) /\ CellAt(text, table[r][c], places[r][c])
        /\ \/ Opens(text, places[r][c], k) \/ Symbol(text, table[r][c], places[r][c], k)
           \/ Closes(text, table[r][c], places[r][c], k) \/ Ends(table[r][c], places[r][c], k)
  BY <1>1, HereIsNext DEF NextIn
<1>3. /\ text[index] = At(index) /\ index \in Nat /\ index \in 1 .. Len(normalized)
      /\ LeftOf(text) /\ quoted \in BOOLEAN
  BY <1>1, HereIsNext, Zenon DEF Parsing
<1>4. index <= Len(text) /\ table \in Seq(Rows) /\ N = Len(table)
  <2>1. index <= Len(text)
    BY <1>3 DEF LeftOf
  <2>2. table \in Seq(Rows) /\ N = Len(table)
    BY Zenon DEF File, Shape
  <2> QED BY <2>1, <2>2
<1>5. ~Ends(table[r][c], places[r][c], k)
  <2>1. places[r][c].fin <= Len(text) => text[places[r][c].fin] \in {Comma, NewLine}
    BY <1>2, AfterEnd
  <2> QED BY <1>1, <1>3, <1>4, <2>1, Symbols3 DEF Ends
<1>6. Opens(text, places[r][c], k)
  BY <1>1, <1>2, <1>3, <1>5 DEF Symbol, Closes
<1>7. In(table, r, c, k)'
  BY <1>1, <1>2, Zenon DEF In
<1>8. InCell(table[r][c], places[r][c], k)'
  BY <1>1, <1>6 DEF Opens, InCell
<1>9. index' \in Nat \ {0} /\ quoted' \in BOOLEAN
  BY <1>1, <1>3
<1> QED BY <1>1, <1>2, <1>7, <1>8, <1>9, Continues, Zenon

LEMMA CharacterReads ==
  ASSUME NEW text, NEW table, NEW N, NEW places, NEW tail \in BOOLEAN, File(text, table, N, places, tail),
         Parsing(text, table, N, places, tail), Character
  PROVE  Parsing(text, table, N, places, tail)'
<1>1. /\ index \in DOMAIN normalized /\ cell' = Append(cell, At(index)) /\ index' = index + 1
      /\ \/ quoted /\ At(index) # Quote
         \/ ~quoted /\ At(index) \notin {Comma, NewLine} /\ (At(index) = Quote => cell # <<>>)
      /\ UNCHANGED <<quoted, row, records>> /\ UNCHANGED <<normalized, cut>>
  BY DEF Character, Parses
<1>3. /\ text[index] = At(index) /\ index \in Nat /\ index \in 1 .. Len(normalized)
      /\ LeftOf(text) /\ quoted \in BOOLEAN
  <2>1. LeftOf(text) /\ quoted \in BOOLEAN /\ index \in Nat
    BY DEF Parsing
  <2>2. At(index) = normalized[index] /\ index \in 1 .. Len(normalized)
    BY <1>1, <2>1 DEF LeftOf, At
  <2> QED BY <2>1, <2>2 DEF LeftOf
<1>4. index <= Len(text) /\ table \in Seq(Rows) /\ N = Len(table)
  <2>1. index <= Len(text)
    BY <1>3 DEF LeftOf
  <2>2. table \in Seq(Rows) /\ N = Len(table)
    BY Zenon DEF File, Shape
  <2> QED BY <2>1, <2>2
<1>2. PICK r, c, k :
        /\ r \in 1 .. N /\ c \in 1 .. Len(table[r]) /\ k \in 0 .. Len(table[r][c])
        /\ In(table, r, c, k) /\ CellAt(text, table[r][c], places[r][c])
        /\ \/ Opens(text, places[r][c], k) \/ Symbol(text, table[r][c], places[r][c], k)
           \/ Closes(text, table[r][c], places[r][c], k) \/ Ends(table[r][c], places[r][c], k)
  <2>1. InACell(table, N, places)
    <3>1. ~(index > Len(normalized)) /\ ~AllRead(text, table, tail)
      BY <1>3 DEF LeftOf, AllRead
    <3> QED BY <3>1, Zenon DEF Parsing, Inside, InACell
  <2>2. NextIn(text, table, N, places)
    BY <1>3, <2>1, HereIsCell, Zenon
  <2> QED BY <2>2, Zenon DEF NextIn
<1>5. ~Ends(table[r][c], places[r][c], k)
  <2>1. places[r][c].fin <= Len(text) => text[places[r][c].fin] \in {Comma, NewLine}
    BY <1>2, AfterEnd
  <2> QED BY <1>1, <1>3, <1>4, <2>1, Symbols3 DEF Ends
<1>6. ~Opens(text, places[r][c], k)
  <2>1. k = 0 => cell = <<>>
    <3>1. table[r][c] \in Seq(Chars)
      BY <1>2, <1>4, ValuesAre, Zenon DEF Values
    <3> QED BY <1>2, <3>1, PrefixIs DEF In
  <2> QED BY <1>1, <1>3, <2>1 DEF Opens
<1>7. /\ k < Len(table[r][c]) /\ text[index] = table[r][c][k + 1]
      /\ quoted = places[r][c].wrapped /\ places[r][c].pos[k + 1] = index + 1
  <2>1. Symbol(text, table[r][c], places[r][c], k)
    BY <1>1, <1>2, <1>3, <1>5, <1>6 DEF Closes
  <2>2. places[r][c].wrapped \in BOOLEAN
    BY <1>2 DEF CellAt
  <2> QED BY <1>1, <1>3, <2>1, <2>2 DEF Symbol
<1>8. k + 1 \in 0 .. Len(table[r][c]) /\ In(table, r, c, k + 1)'
  BY <1>1, <1>2, <1>3, <1>4, <1>7, TakesSymbol
<1>9. InCell(table[r][c], places[r][c], k + 1)'
  BY <1>1, <1>7 DEF InCell
<1>10. index' \in Nat \ {0} /\ quoted' \in BOOLEAN
  BY <1>1, <1>3
<1> QED BY <1>1, <1>2, <1>8, <1>9, <1>10, Continues, Zenon

LEMMA TakesCell ==
  ASSUME NEW table \in Seq(Rows), NEW N, N = Len(table), NEW r \in 1 .. N, NEW c \in 1 .. Len(table[r]),
         NEW k, k = Len(table[r][c]), In(table, r, c, k)
  PROVE  Append(row, cell) = SubSeq(table[r], 1, c)
<1>1. table[r] \in Seq(Values) /\ table[r][c] \in Seq(Chars)
  BY ValuesAre, Zenon DEF Rows, Values
<1>2. cell = table[r][c]
  <2>1. SubSeq(table[r][c], 1, Len(table[r][c])) = table[r][c]
    BY <1>1, PrefixIs, Zenon
  <2> QED BY <2>1, Zenon DEF In
<1>3. SubSeq(table[r], 1, c) = Append(SubSeq(table[r], 1, c - 1), table[r][c])
  BY <1>1, PrefixIs, Zenon
<1> QED BY <1>2, <1>3, Zenon DEF In

LEMMA TakesRow ==
  ASSUME NEW table \in Seq(Rows), NEW N, N = Len(table), NEW r \in 1 .. N, NEW c, c = Len(table[r]),
         c \in 1 .. Len(table[r]), NEW k, k = Len(table[r][c]), In(table, r, c, k)
  PROVE  /\ Append(row, cell) = table[r]
         /\ Append(records, Append(row, cell)) = SubSeq(table, 1, r)
<1>1. table[r] \in Seq(Values)
  BY ValuesAre, Zenon DEF Rows
<1>2. Append(row, cell) = table[r]
  <2>1. SubSeq(table[r], 1, Len(table[r])) = table[r]
    BY <1>1, PrefixIs, Zenon
  <2> QED BY <2>1, TakesCell, Zenon
<1>3. SubSeq(table, 1, r) = Append(SubSeq(table, 1, r - 1), table[r])
  BY PrefixIs, Zenon
<1> QED BY <1>2, <1>3, Zenon DEF In

LEMMA Starts ==
  ASSUME NEW text, NEW x, NEW place, CellAt(text, x, place), ~quoted', index' = place.start
  PROVE  InCell(x, place, 0)'
<1>1. CASE AsItIs(x, place)
  BY <1>1 DEF AsItIs, InCell
<1>2. CASE InQuotes(text, x, place)
  BY <1>2 DEF InQuotes, InCell
<1> QED BY <1>1, <1>2 DEF CellAt

LEMMA AtStart ==
  ASSUME NEW text, NEW table, NEW N, NEW places, NEW tail \in BOOLEAN, File(text, table, N, places, tail),
         NEW r \in 1 .. N, NEW c \in 1 .. Len(table[r])
  PROVE  0 \in 0 .. Len(table[r][c]) /\ CellAt(text, table[r][c], places[r][c])
         /\ SubSeq(table[r][c], 1, 0) = <<>>
<1>1. table \in Seq(Rows) /\ N = Len(table) /\ CellAt(text, table[r][c], places[r][c])
  BY Zenon DEF File, Shape, Written
<1>2. table[r][c] \in Seq(Chars) /\ Len(table[r][c]) \in Nat
  BY <1>1, ValuesAre, Zenon DEF Values
<1>3. SubSeq(table[r][c], 1, 0) = <<>>
  BY <1>2, PrefixIs, Zenon
<1>4. 0 \in 0 .. Len(table[r][c])
  BY <1>2
<1> QED BY <1>1, <1>3, <1>4

\* At the start of a cell with all cells before it read.
LEMMA StartsCell ==
  ASSUME NEW text, NEW table, NEW N, NEW places, NEW tail \in BOOLEAN, File(text, table, N, places, tail),
         Parsing(text, table, N, places, tail),
         NEW r \in 1 .. N, NEW c \in 1 .. Len(table[r]),
         records' = SubSeq(table, 1, r - 1), row' = SubSeq(table[r], 1, c - 1), cell' = <<>>,
         index' = places[r][c].start, index' \in Nat \ {0}, quoted' = FALSE, UNCHANGED <<normalized, cut>>
  PROVE  Parsing(text, table, N, places, tail)'
<1>1. /\ 0 \in 0 .. Len(table[r][c]) /\ CellAt(text, table[r][c], places[r][c])
      /\ SubSeq(table[r][c], 1, 0) = <<>>
  BY AtStart
<1>2. ~quoted' /\ quoted' \in BOOLEAN
  OBVIOUS
<1>3. InCell(table[r][c], places[r][c], 0)'
  BY <1>1, <1>2, Starts, Zenon
<1>4. \E k : k = 0
  OBVIOUS
<1>5. PICK k : k = 0
  BY <1>4
<1>6. k \in 0 .. Len(table[r][c]) /\ cell' = SubSeq(table[r][c], 1, k)
  BY <1>1, <1>5, Zenon
<1>7. In(table, r, c, k)'
  BY <1>6, Zenon DEF In
<1>8. InCell(table[r][c], places[r][c], k)'
  BY <1>3, <1>5, Zenon
<1> QED BY <1>2, <1>6, <1>7, <1>8, Continues, Zenon

LEMMA EndOfCellReads ==
  ASSUME NEW text, NEW table, NEW N, NEW places, NEW tail \in BOOLEAN, File(text, table, N, places, tail),
         Parsing(text, table, N, places, tail), EndOfCell
  PROVE  Parsing(text, table, N, places, tail)'
<1>1. /\ At(index) = Comma /\ At(index) # "end" /\ ~quoted
      /\ row' = Append(row, cell) /\ cell' = <<>> /\ index' = index + 1
      /\ quoted' = quoted /\ records' = records /\ UNCHANGED <<normalized, cut>>
  BY Symbols3 DEF EndOfCell, Parses
<1>2. PICK r, c, k :
        /\ r \in 1 .. N /\ c \in 1 .. Len(table[r]) /\ k \in 0 .. Len(table[r][c])
        /\ In(table, r, c, k) /\ CellAt(text, table[r][c], places[r][c])
        /\ \/ Opens(text, places[r][c], k) \/ Symbol(text, table[r][c], places[r][c], k)
           \/ Closes(text, table[r][c], places[r][c], k) \/ Ends(table[r][c], places[r][c], k)
  BY <1>1, HereIsNext DEF NextIn
<1>3. /\ text[index] = Comma /\ index \in Nat /\ index \in 1 .. Len(normalized)
      /\ LeftOf(text) /\ quoted \in BOOLEAN
  BY <1>1, HereIsNext, Zenon DEF Parsing
<1>4. index <= Len(text) /\ table \in Seq(Rows) /\ N = Len(table)
  <2>1. index <= Len(text)
    BY <1>3 DEF LeftOf
  <2>2. table \in Seq(Rows) /\ N = Len(table)
    BY Zenon DEF File, Shape
  <2> QED BY <2>1, <2>2
<1>5. k = Len(table[r][c]) /\ index = places[r][c].fin
  BY <1>1, <1>2, <1>3, Symbols3 DEF Opens, Symbol, Closes, Ends
<1>6. c + 1 \in 1 .. Len(table[r]) /\ places[r][c + 1].start = index + 1
  <2> DEFINE fin == places[r][c].fin
  <2>1. fin <= Len(text) /\ text[fin] = Comma =>
          c + 1 \in 1 .. Len(table[r]) /\ places[r][c + 1].start = fin + 1
    <3>1. r \in 1 .. N /\ c \in 1 .. Len(table[r]) /\ fin = places[r][c].fin
      BY <1>2
    <3> HIDE DEF fin
    <3> QED BY <3>1, AfterEnd, SMTT(40)
  <2> QED BY <1>3, <1>4, <1>5, <2>1, Zenon
<1>7. PICK d : d \in 1 .. Len(table[r]) /\ d - 1 = c /\ places[r][d].start = index + 1
  <2>1. PICK d : d = c + 1
    OBVIOUS
  <2>2. d - 1 = c
    BY <1>2, <2>1
  <2>3. d \in 1 .. Len(table[r]) /\ places[r][d].start = index + 1
    BY <1>6, <2>1, Zenon
  <2> QED BY <2>2, <2>3
<1>8. row' = SubSeq(table[r], 1, d - 1) /\ records' = SubSeq(table, 1, r - 1)
  <2>1. Append(row, cell) = SubSeq(table[r], 1, c)
    BY <1>2, <1>4, <1>5, TakesCell, Zenon
  <2> QED BY <1>1, <1>2, <1>7, <2>1, Zenon DEF In
<1>9. index' = places[r][d].start /\ index' \in Nat \ {0} /\ quoted' = FALSE
  <2>1. index + 1 \in Nat \ {0}
    BY <1>3
  <2> QED BY <1>1, <1>3, <1>7, <2>1, Zenon
<1> QED BY <1>1, <1>2, <1>7, <1>8, <1>9, StartsCell, Zenon

LEMMA EndOfRowReads ==
  ASSUME NEW text, NEW table, NEW N, NEW places, NEW tail \in BOOLEAN, File(text, table, N, places, tail),
         Parsing(text, table, N, places, tail), EndOfRow
  PROVE  Parsing(text, table, N, places, tail)'
<1>1. /\ At(index) = NewLine /\ At(index) # "end" /\ ~quoted
      /\ records' = Append(records, Append(row, cell)) /\ row' = <<>> /\ cell' = <<>>
      /\ index' = index + 1 /\ quoted' = quoted /\ UNCHANGED <<normalized, cut>>
  BY Symbols3 DEF EndOfRow, Parses
<1>2. PICK r, c, k :
        /\ r \in 1 .. N /\ c \in 1 .. Len(table[r]) /\ k \in 0 .. Len(table[r][c])
        /\ In(table, r, c, k) /\ CellAt(text, table[r][c], places[r][c])
        /\ \/ Opens(text, places[r][c], k) \/ Symbol(text, table[r][c], places[r][c], k)
           \/ Closes(text, table[r][c], places[r][c], k) \/ Ends(table[r][c], places[r][c], k)
  BY <1>1, HereIsNext DEF NextIn
<1>3. /\ text[index] = NewLine /\ index \in Nat /\ index \in 1 .. Len(normalized)
      /\ LeftOf(text) /\ quoted \in BOOLEAN
  BY <1>1, HereIsNext, Zenon DEF Parsing
<1>4. index <= Len(text) /\ table \in Seq(Rows) /\ N = Len(table)
  <2>1. index <= Len(text)
    BY <1>3 DEF LeftOf
  <2>2. table \in Seq(Rows) /\ N = Len(table)
    BY Zenon DEF File, Shape
  <2> QED BY <2>1, <2>2
<1>5. k = Len(table[r][c]) /\ index = places[r][c].fin
  BY <1>1, <1>2, <1>3, Symbols3 DEF Opens, Symbol, Closes, Ends
<1>6. /\ c = Len(table[r])
      /\ \/ r + 1 \in 1 .. N /\ 1 \in 1 .. Len(table[r + 1]) /\ places[r + 1][1].start = index + 1
         \/ r = N /\ tail /\ index = Len(text)
  <2> DEFINE fin == places[r][c].fin
  <2>1. fin <= Len(text) /\ text[fin] = NewLine =>
          /\ c = Len(table[r])
          /\ \/ r + 1 \in 1 .. N /\ 1 \in 1 .. Len(table[r + 1]) /\ places[r + 1][1].start = fin + 1
             \/ r = N /\ tail /\ fin = Len(text)
    <3>1. r \in 1 .. N /\ c \in 1 .. Len(table[r]) /\ fin = places[r][c].fin
      BY <1>2
    <3> HIDE DEF fin
    <3> QED BY <3>1, AfterEnd, SMTT(40)
  <2> QED BY <1>3, <1>4, <1>5, <2>1, Zenon
<1>7. records' = SubSeq(table, 1, r)
  BY <1>1, <1>2, <1>4, <1>5, <1>6, TakesRow, Zenon
<1>8. CASE r + 1 \in 1 .. N /\ 1 \in 1 .. Len(table[r + 1]) /\ places[r + 1][1].start = index + 1
  <2>1. PICK q, d :
          /\ q \in 1 .. N /\ d \in 1 .. Len(table[q]) /\ q - 1 = r /\ d - 1 = 0
          /\ places[q][d].start = index + 1
    <3>1. PICK q : q = r + 1
      OBVIOUS
    <3>2. PICK d : d = 1
      OBVIOUS
    <3>3. q - 1 = r /\ d - 1 = 0
      BY <1>2, <3>1, <3>2
    <3>4. q \in 1 .. N /\ d \in 1 .. Len(table[q]) /\ places[q][d].start = index + 1
      BY <1>8, <3>1, <3>2, Zenon
    <3> QED BY <3>3, <3>4
  <2>2. records' = SubSeq(table, 1, q - 1) /\ row' = SubSeq(table[q], 1, d - 1)
    <3>1. table[q] \in Seq(Values)
      BY <1>4, <2>1, ValuesAre, Zenon DEF Rows
    <3>2. SubSeq(table[q], 1, 0) = <<>>
      BY <3>1, PrefixIs, Zenon
    <3> QED BY <1>1, <1>7, <2>1, <3>2, Zenon
  <2>3. index' = places[q][d].start /\ index' \in Nat \ {0} /\ quoted' = FALSE
    <3>1. index + 1 \in Nat \ {0}
      BY <1>3
    <3> QED BY <1>1, <1>3, <2>1, <3>1, Zenon
  <2> QED BY <1>1, <2>1, <2>2, <2>3, StartsCell, Zenon
<1>9. CASE r = N /\ tail /\ index = Len(text)
  <2>1. LeftOf(text)'
    BY <1>1, Zenon DEF Parsing, LeftOf
  <2>2. ~cut
    <3>1. /\ Len(text) \in Nat /\ Len(normalized) \in Nat /\ Len(normalized) <= Len(text)
          /\ (~cut <=> Len(normalized) = Len(text))
      BY <1>3 DEF LeftOf
    <3>2. Len(normalized) = Len(text)
      BY <1>3, <1>9, <3>1
    <3> QED BY <3>1, <3>2, Zenon
  <2>3. SubSeq(table, 1, N) = table
    BY <1>4, PrefixIs, Zenon
  <2>4. AllRead(text, table, tail)'
    BY <1>1, <1>7, <1>9, <2>2, <2>3 DEF AllRead
  <2>5. index' \in Nat \ {0} /\ quoted' \in BOOLEAN
    <3>1. index + 1 \in Nat \ {0}
      BY <1>3
    <3> QED BY <1>1, <1>3, <3>1, Zenon
  <2> QED BY <2>1, <2>4, <2>5, Zenon DEF Parsing
<1> QED BY <1>6, <1>8, <1>9

\* Of a shorter file the same has been read.
LEMMA CutShortReads ==
  ASSUME NEW text, NEW table, NEW N, NEW places, NEW tail \in BOOLEAN, File(text, table, N, places, tail),
         Parsing(text, table, N, places, tail), CutShort
  PROVE  Parsing(text, table, N, places, tail)'
<1>1. PICK end \in {index - 1, index} \cap 0 .. Len(normalized) - 1 :
        normalized' = SubSeq(normalized, 1, end)
  BY DEF CutShort
<1>2. ~cut /\ cut' = TRUE /\ UNCHANGED <<index, quoted, cell, row, records>>
  BY DEF CutShort, loop
<1>3. /\ LeftOf(text) /\ quoted \in BOOLEAN /\ index \in Nat \ {0}
      /\ Inside(table, N, places) \/ AllRead(text, table, tail)
  BY Zenon DEF Parsing
<1>4. end \in Nat /\ end < Len(normalized) /\ (end = index - 1 \/ end = index)
  BY <1>1, <1>3 DEF LeftOf
<1>5. /\ \E S : normalized' \in Seq(S)
      /\ Len(normalized') = end /\ DOMAIN normalized' = 1 .. end
      /\ \A i \in 1 .. end : normalized'[i] = normalized[i]
  <2>1. PICK S : normalized \in Seq(S)
    BY <1>3 DEF LeftOf
  <2>2. \A i \in 1 .. end : normalized[i] \in S
    BY <1>4, <2>1
  <2>3. /\ SubSeq(normalized, 1, end) \in Seq(S)
        /\ Len(SubSeq(normalized, 1, end)) = IF 1 <= end THEN end - 1 + 1 ELSE 0
        /\ \A i \in 1 .. end - 1 + 1 : SubSeq(normalized, 1, end)[i] = normalized[1 + i - 1]
    BY <1>4, <2>2, SubSeqProperties
  <2>4. normalized' \in Seq(S) /\ Len(normalized') = end
    BY <1>1, <1>4, <2>3
  <2>5. ASSUME NEW i \in 1 .. end PROVE normalized'[i] = normalized[i]
    <3>1. i \in 1 .. end - 1 + 1 /\ 1 + i - 1 = i
      BY <1>4
    <3> QED BY <1>1, <2>3, <3>1
  <2> QED BY <2>4, <2>5
<1>6. LeftOf(text)'
  BY <1>2, <1>3, <1>4, <1>5 DEF LeftOf
<1>7. ~AllRead(text, table, tail)
  BY <1>3, <1>4 DEF AllRead, LeftOf
<1>8. PICK r \in 1 .. N : \E c \in 1 .. Len(table[r]) : \E k \in 0 .. Len(table[r][c]) :
        In(table, r, c, k) /\ InCell(table[r][c], places[r][c], k)
  BY <1>2, <1>3, <1>7, Zenon DEF Inside
<1>9. PICK c \in 1 .. Len(table[r]) : \E k \in 0 .. Len(table[r][c]) :
        In(table, r, c, k) /\ InCell(table[r][c], places[r][c], k)
  BY <1>8
<1>10. PICK k \in 0 .. Len(table[r][c]) : In(table, r, c, k) /\ InCell(table[r][c], places[r][c], k)
  BY <1>9
<1>11. In(table, r, c, k)' /\ InCell(table[r][c], places[r][c], k)'
  BY <1>2, <1>10, Zenon DEF In, InCell
<1>12. Inside(table, N, places)'
  BY <1>11, Zenon DEF Inside
<1> QED BY <1>2, <1>3, <1>6, <1>12, Zenon DEF Parsing

-----------------------------------------------------------------------------
(* What has been read at the end of the file.                               *)

LEMMA BlanksAreTrimmed ==
  /\ Trim(<<>>) = <<>> /\ Trim(<<" ">>) = <<>>
  /\ \A value : ToSet(<<value>>) = {value}
  /\ \A value \in ToSet(BlankRow) : Trim(value) = <<>>
<1>1. {i \in DOMAIN <<>> : <<>>[i] \notin Blanks} = {}
  OBVIOUS
<1>2. {i \in DOMAIN <<" ">> : <<" ">>[i] \notin Blanks} = {}
  <2>1. DOMAIN <<" ">> = {1} /\ <<" ">>[1] = " "
    OBVIOUS
  <2>2. " " \in Blanks
    BY DEF Blanks
  <2> QED BY <2>1, <2>2
<1>3. ASSUME NEW value PROVE ToSet(<<value>>) = {value}
  <2>1. DOMAIN <<value>> = {1} /\ <<value>>[1] = value
    OBVIOUS
  <2> QED BY <2>1 DEF ToSet
<1>4. Trim(<<>>) = <<>> /\ Trim(<<" ">>) = <<>>
  BY <1>1, <1>2, Zenon DEF Trim
<1>5. ToSet(BlankRow) = {<<" ">>}
  BY <1>3, Zenon DEF BlankRow
<1> QED BY <1>3, <1>4, <1>5, Zenon

LEMMA BeyondText ==
  ASSUME NEW text, Len(text) \in Nat, NEW x, Len(x) \in Nat, NEW place, CellAt(text, x, place),
         NEW k \in 0 .. Len(x), InCell(x, place, k), index \in Nat, index > Len(text)
  PROVE  Ends(x, place, k)
<1>1. /\ place.start \in Nat \ {0} /\ place.fin \in Nat
      /\ \A j \in 0 .. Len(x) : place.pos[j] \in Nat
      /\ place.wrapped \in BOOLEAN
  BY DEF CellAt
<1>2. k < Len(x) => place.pos[k] <= Len(text)
  <2>1. SUFFICES ASSUME k < Len(x) PROVE place.pos[k] <= Len(text)
    OBVIOUS
  <2>2. k + 1 \in 1 .. Len(x) /\ k + 1 - 1 = k
    BY <2>1
  <2>3. place.pos[k + 1 - 1] \in 1 .. Len(text)
    BY <2>2 DEF CellAt
  <2> QED BY <1>1, <2>2, <2>3
<1>3. CASE AsItIs(x, place)
  <2>1. ~place.wrapped /\ place.fin = place.pos[Len(x)]
    BY <1>3 DEF AsItIs
  <2>2. CASE ~quoted /\ index = place.pos[k]
    <3>1. k = Len(x)
      <4>1. ~(k < Len(x))
        BY <1>1, <1>2, <2>2
      <4> QED BY <4>1
    <3> QED BY <2>1, <2>2, <3>1 DEF Ends
  <2> QED BY <2>1, <2>2 DEF InCell, Ends
<1>4. CASE InQuotes(text, x, place)
  <2>1. place.wrapped /\ place.start <= Len(text) /\ place.pos[Len(x)] <= Len(text)
    BY <1>1, <1>4 DEF InQuotes
  <2>2. ~(index = place.pos[k])
    <3>1. CASE k = Len(x)
      <4>1. place.pos[k] = place.pos[Len(x)] /\ place.pos[k] \in Nat
        BY <1>1, <3>1
      <4> QED BY <2>1, <4>1
    <3>2. CASE k # Len(x)
      <4>1. k < Len(x) /\ place.pos[k] \in Nat
        BY <1>1, <3>2
      <4> QED BY <1>2, <4>1
    <3> QED BY <3>1, <3>2
  <2>3. ~(index = place.start)
    BY <1>1, <2>1
  <2> QED BY <2>1, <2>2, <2>3 DEF InCell, Ends
<1> QED BY <1>3, <1>4 DEF CellAt

LEMMA OneOnly ==
  ASSUME NEW n, n = 1
  PROVE  (\A c \in 1 .. n : c = 1) /\ \A k \in 0 .. n : k = 0 \/ k = n
OBVIOUS

Begins(first, table, r) ==
  /\ first \in Seq(Rows) /\ Len(first) = r - 1 /\ \A i \in 1 .. r - 1 : first[i] = table[i]
  /\ \A x \in Rows :
       /\ Append(first, x) \in Seq(Rows) /\ Len(Append(first, x)) = r
       /\ Append(first, x)[r] = x
       /\ \A i \in 1 .. r - 1 : Append(first, x)[i] = table[i]

\* The first rows of a table have the rows that it has.
LEMMA FirstRows ==
  ASSUME NEW table \in Seq(Rows), NEW r \in 1 .. Len(table), NEW first, first = SubSeq(table, 1, r - 1)
  PROVE  Begins(first, table, r)
<1> DEFINE R == Rows
<1>1. table \in Seq(R)
  OBVIOUS
<1> HIDE DEF R
<1>2. r \in Nat \ {0} /\ r - 1 \in Nat /\ r <= Len(table) /\ Len(table) \in Nat
  BY <1>1
<1>3. \A i \in 1 .. r - 1 : table[i] \in R
  BY <1>1, <1>2
<1>4. /\ first \in Seq(R) /\ Len(first) = IF 1 <= r - 1 THEN r - 1 - 1 + 1 ELSE 0
      /\ \A i \in 1 .. r - 1 - 1 + 1 : first[i] = table[1 + i - 1]
  BY <1>1, <1>2, <1>3, SubSeqProperties
<1>5. Len(first) = r - 1
  BY <1>2, <1>4
<1>6. ASSUME NEW i \in 1 .. r - 1 PROVE first[i] = table[i]
  <2>1. i \in 1 .. r - 1 - 1 + 1 /\ 1 + i - 1 = i
    BY <1>2
  <2> QED BY <1>4, <2>1
<1>7. ASSUME NEW x \in R
      PROVE  /\ Append(first, x) \in Seq(R) /\ Len(Append(first, x)) = r /\ Append(first, x)[r] = x
             /\ \A i \in 1 .. r - 1 : Append(first, x)[i] = first[i]
  BY <1>2, <1>4, <1>5
<1>8. first \in Seq(R) /\ Len(first) = r - 1 /\ \A i \in 1 .. r - 1 : first[i] = table[i]
  BY <1>4, <1>5, <1>6
<1>9. \A x \in R :
        /\ Append(first, x) \in Seq(R) /\ Len(Append(first, x)) = r
        /\ Append(first, x)[r] = x
        /\ \A i \in 1 .. r - 1 : Append(first, x)[i] = table[i]
  BY <1>6, <1>7, Zenon
<1> QED BY <1>8, <1>9, Zenon DEF R, Begins

\* The records of a file: all rows, or the first ones of a file that was cut short, the
\* last of which may have lost its end.
Read(table, N, tail) ==
  /\ cut \in BOOLEAN /\ records \in Seq(Rows) /\ Len(records) <= N
  /\ ~cut => records = table
  /\ \A i \in 1 .. Len(records) : i < Len(records) => records[i] = table[i]
  /\ tail /\ Len(records) = N => \A value \in ToSet(records[N]) : Trim(value) = <<>>

\* A file that was read to its end gives the table.
LEMMA WholeIsRead ==
  ASSUME NEW text, NEW table, NEW N, NEW places, NEW tail \in BOOLEAN, File(text, table, N, places, tail),
         cut' \in BOOLEAN, records' = table
  PROVE  Read(table, N, tail)'
<1>1. table \in Seq(Rows) /\ Len(table) = N /\ N \in Nat \ {0} /\ (tail => table[N] = BlankRow)
  BY Zenon DEF File, Shape
<1>2. ASSUME tail, NEW value \in ToSet(table[N]) PROVE Trim(value) = <<>>
  BY <1>1, <1>2, BlanksAreTrimmed, Zenon
<1>3. Len(table) <= N
  BY <1>1
<1>4. Read(table, N, tail)'
  BY <1>1, <1>2, <1>3, Zenon DEF Read
<1> QED BY <1>4

\* A file that was cut short, or whole and without a blank row, ends in a row.
LEMMA CellsSoFar ==
  ASSUME NEW table \in Seq(Rows), NEW N, N = Len(table), NEW r \in 1 .. N, NEW c \in 1 .. Len(table[r]),
         NEW k \in 0 .. Len(table[r][c]), In(table, r, c, k)
  PROVE  cell \in Values /\ row \in Rows /\ Append(row, cell) \in Rows
<1> DEFINE x == table[r][c]
           y == table[r]
<1>1. x \in Seq(Chars) /\ Len(x) \in Nat /\ y \in Seq(Values) /\ Len(y) \in Nat
  BY ValuesAre, Zenon DEF Values, Rows
<1>2. c \in 1 .. Len(y) /\ k \in 0 .. Len(x) /\ row = SubSeq(y, 1, c - 1) /\ cell = SubSeq(x, 1, k)
  BY DEF In
<1> HIDE DEF x, y
<1>3. \A i \in 1 .. k : x[i] \in Chars
  BY <1>1, <1>2
<1>4. cell \in Seq(Chars)
  BY <1>1, <1>2, <1>3, SubSeqProperties
<1>5. row \in Seq(Values)
  <2> DEFINE V == Values
  <2>1. y \in Seq(V)
    BY <1>1
  <2> HIDE DEF V
  <2>2. \A i \in 1 .. c - 1 : y[i] \in V
    BY <1>1, <1>2, <2>1
  <2>3. row \in Seq(V)
    BY <1>1, <1>2, <2>2, SubSeqProperties
  <2> QED BY <2>3 DEF V
<1>6. Append(row, cell) \in Seq(Values)
  BY <1>4, <1>5, AppendIs, Zenon DEF Values
<1> QED BY <1>4, <1>5, <1>6, Zenon DEF Rows, Values

\* A file that was cut short gives its first rows, of which the last may lack its end.
LEMMA PartIsRead ==
  ASSUME NEW text, NEW table, NEW N, NEW places, NEW tail \in BOOLEAN, File(text, table, N, places, tail),
         NEW r \in 1 .. N, NEW c \in 1 .. Len(table[r]), NEW k \in 0 .. Len(table[r][c]), In(table, r, c, k),
         cut, cut', records' = records \/ records' = Append(records, Append(row, cell))
  PROVE  Read(table, N, tail)'
<1>1. table \in Seq(Rows) /\ N = Len(table) /\ N \in Nat \ {0} /\ (tail => table[N] = BlankRow)
  BY Zenon DEF File, Shape
<1>2. Append(row, cell) \in Rows
  BY <1>1, CellsSoFar, Zenon
<1>3. /\ records \in Seq(Rows) /\ Len(records) = r - 1 /\ \A i \in 1 .. r - 1 : records[i] = table[i]
      /\ \A x \in Rows :
           /\ Append(records, x) \in Seq(Rows) /\ Len(Append(records, x)) = r
           /\ Append(records, x)[r] = x
           /\ \A i \in 1 .. r - 1 : Append(records, x)[i] = table[i]
  <2>1. records = SubSeq(table, 1, r - 1)
    BY DEF In
  <2>2. r \in 1 .. Len(table)
    BY <1>1, Zenon
  <2>3. Begins(records, table, r)
    BY <1>1, <2>1, <2>2, FirstRows, Zenon
  <2> QED BY <2>3, Zenon DEF Begins
<1>4. cut' \in BOOLEAN /\ (~cut' => records' = table)
  OBVIOUS
<1>5. CASE records' = records
  <2>1. r - 1 <= N /\ r - 1 # N
    BY <1>1
  <2>2. ASSUME NEW i \in 1 .. Len(records') PROVE records'[i] = table[i]
    BY <1>3, <1>5
  <2> QED BY <1>3, <1>4, <1>5, <2>1, <2>2, Zenon DEF Read
<1>6. CASE records' = Append(records, Append(row, cell))
  <2>1. /\ records' \in Seq(Rows) /\ Len(records') = r /\ records'[r] = Append(row, cell)
        /\ \A i \in 1 .. r - 1 : records'[i] = table[i]
    BY <1>2, <1>3, <1>6, Zenon
  <2>2. ASSUME NEW i \in 1 .. Len(records'), i < Len(records') PROVE records'[i] = table[i]
    <3>1. i \in 1 .. r - 1
      BY <2>1, <2>2
    <3> QED BY <2>1, <3>1
  <2>3. Len(records') <= N
    BY <1>1, <2>1
  <2>4. ASSUME tail, Len(records') = N PROVE \A value \in ToSet(records'[N]) : Trim(value) = <<>>
    <3>1. r = N /\ table[r] = BlankRow
      BY <1>1, <2>1, <2>4, Zenon
    <3>2. Len(table[r]) = 1 /\ table[r][1] = <<" ">>
      BY <3>1, RowsAre, Zenon
    <3>3. c = 1
      BY <3>2, OneOnly, Zenon
    <3>4. row = <<>>
      <4>1. row = SubSeq(table[r], 1, 0)
        <5>1. c - 1 = 0
          BY <3>3
        <5> QED BY <5>1, Zenon DEF In
      <4> QED BY <4>1, SubSeqEmpty
    <3>5. cell = <<>> \/ cell = <<" ">>
      <4> DEFINE blank == <<" ">>
      <4>1. blank \in Seq({" "}) /\ Len(blank) = 1
        OBVIOUS
      <4>2. k \in 0 .. Len(blank) /\ cell = SubSeq(blank, 1, k)
        BY <3>2, <3>3, Zenon DEF In
      <4> HIDE DEF blank
      <4>3. SubSeq(blank, 1, 0) = <<>> /\ SubSeq(blank, 1, Len(blank)) = blank
        BY <4>1, PrefixIs, Zenon
      <4>4. k = 0 \/ k = Len(blank)
        BY <4>1, <4>2, OneOnly, Zenon
      <4> QED BY <4>2, <4>3, <4>4, Zenon DEF blank
    <3>6. ToSet(records'[N]) = {cell}
      <4>1. Append(<<>>, cell) = <<cell>>
        OBVIOUS
      <4> QED BY <2>1, <3>1, <3>4, <4>1, BlanksAreTrimmed, Zenon
    <3> QED BY <3>5, <3>6, BlanksAreTrimmed, Zenon
  <2> QED BY <1>4, <2>1, <2>2, <2>3, <2>4, Zenon DEF Read
<1> QED BY <1>5, <1>6

LEMMA EndOfFileReads ==
  ASSUME NEW text, NEW table, NEW N, NEW places, NEW tail \in BOOLEAN, File(text, table, N, places, tail),
         Parsing(text, table, N, places, tail), EndOfFile
  PROVE  Read(table, N, tail)' /\ (csvPc' = "refused" => cut)
<1>1. /\ LeftOf(text) /\ quoted \in BOOLEAN /\ index \in Nat
      /\ Inside(table, N, places) \/ AllRead(text, table, tail)
  <2>1. /\ LeftOf(text) /\ quoted \in BOOLEAN /\ index \in Nat \ {0}
        /\ Inside(table, N, places) \/ AllRead(text, table, tail)
    BY Zenon DEF Parsing
  <2> QED BY <2>1
<1>2. /\ index > Len(normalized) /\ cut' = cut
      /\ csvPc' = IF quoted THEN "refused" ELSE "parsed"
      /\ records' = IF quoted \/ (cell = <<>> /\ row = <<>>) THEN records
                    ELSE Append(records, Append(row, cell))
  BY DEF EndOfFile
<1>3. cut \in BOOLEAN /\ (~cut => index > Len(text)) /\ Len(text) \in Nat
  <2>1. cut \in BOOLEAN /\ (~cut <=> Len(normalized) = Len(text)) /\ Len(text) \in Nat
    BY <1>1 DEF LeftOf
  <2> QED BY <1>2, <2>1, Zenon
<1>4. CASE AllRead(text, table, tail)
  <2>1. ~quoted /\ records' = table
    BY <1>2, <1>4, Zenon DEF AllRead
  <2>2. csvPc' # "refused"
    BY <1>2, <2>1
  <2> QED BY <1>2, <1>3, <2>1, <2>2, WholeIsRead, Zenon
<1>5. CASE Inside(table, N, places)
  <2>1. PICK r \in 1 .. N : \E c \in 1 .. Len(table[r]) : \E k \in 0 .. Len(table[r][c]) :
          In(table, r, c, k) /\ (InCell(table[r][c], places[r][c], k) \/ (cut /\ index > Len(normalized)))
    BY <1>5 DEF Inside
  <2>2. PICK c \in 1 .. Len(table[r]) : \E k \in 0 .. Len(table[r][c]) :
          In(table, r, c, k) /\ (InCell(table[r][c], places[r][c], k) \/ (cut /\ index > Len(normalized)))
    BY <2>1
  <2>3. PICK k \in 0 .. Len(table[r][c]) :
          In(table, r, c, k) /\ (InCell(table[r][c], places[r][c], k) \/ (cut /\ index > Len(normalized)))
    BY <2>2
  <2>4. table \in Seq(Rows) /\ N = Len(table) /\ CellAt(text, table[r][c], places[r][c])
    BY Zenon DEF File, Shape, Written
  <2>5. CASE cut
    <3>1. records' = records \/ records' = Append(records, Append(row, cell))
      BY <1>2, Zenon
    <3> QED BY <1>2, <2>3, <2>5, <3>1, PartIsRead, Zenon
  <2>6. CASE ~cut
    <3>1. Ends(table[r][c], places[r][c], k)
      <4>1. Len(table[r][c]) \in Nat /\ InCell(table[r][c], places[r][c], k) /\ index > Len(text)
        BY <1>3, <2>3, <2>4, <2>6, ValuesAre, Zenon
      <4> QED BY <1>1, <1>3, <2>4, <4>1, BeyondText, Zenon
    <3>2. ~quoted /\ k = Len(table[r][c])
      BY <3>1, Zenon DEF Ends
    <3>3. r = N /\ c = Len(table[N]) /\ ~tail
      <4> DEFINE fin == places[r][c].fin
      <4>1. fin <= Len(text) \/ (r = N /\ c = Len(table[N]) /\ ~tail /\ fin = Len(text) + 1)
        <5>1. fin = places[r][c].fin
          OBVIOUS
        <5> HIDE DEF fin
        <5> QED BY <5>1, AfterEnd
      <4>2. index = fin
        BY <3>1, Zenon DEF Ends
      <4> HIDE DEF fin
      <4>3. ~(fin <= Len(text))
        BY <1>1, <1>3, <2>6, <4>2
      <4> QED BY <4>1, <4>3, Zenon
    <3>4. Append(row, cell) = table[r] /\ Append(records, Append(row, cell)) = SubSeq(table, 1, r)
      BY <2>3, <2>4, <3>2, <3>3, TakesRow, Zenon
    <3>5. SubSeq(table, 1, N) = table
      BY <2>4, PrefixIs, Zenon
    <3>6. row # <<>>
      <4>1. row \in Rows
        BY <2>3, <2>4, CellsSoFar, Zenon
      <4>2. Len(table[r]) = 6
        <5>1. Shape(table, N, exported, tail) /\ exported \in Seq(Stored)
          BY Zenon DEF File
        <5> QED BY <3>3, <5>1, RowSizes
      <4>3. cell \in Values /\ row \in Seq(Values)
        BY <2>3, <2>4, <4>1, CellsSoFar, Zenon DEF Rows
      <4>4. Len(Append(row, cell)) = Len(row) + 1
        BY <4>3, AppendProperties
      <4>5. Len(row) + 1 = 6
        BY <3>4, <4>2, <4>4, Zenon
      <4>6. Len(<<>>) + 1 # 6
        OBVIOUS
      <4> QED BY <4>5, <4>6, Zenon
    <3>7. records' = table
      BY <1>2, <3>2, <3>3, <3>4, <3>5, <3>6, Zenon
    <3>8. csvPc' # "refused"
      BY <1>2, <3>2
    <3> QED BY <1>2, <1>3, <3>7, <3>8, WholeIsRead, Zenon
  <2> QED BY <1>3, <2>5, <2>6
<1> QED BY <1>1, <1>4, <1>5

-----------------------------------------------------------------------------
(* What is in the rows that were read.                                       *)

LEMMA EndsOf ==
  ASSUME NEW n \in Nat \ {0} PROVE Min(1 .. n) = 1 /\ Max(1 .. n) = n
<1>1. Min(1 .. n) = 1
  <2>1. \A x \in 1 .. n : (\A y \in 1 .. n : x <= y) <=> x = 1
    OBVIOUS
  <2> QED BY <2>1 DEF Min
<1>2. Max(1 .. n) = n
  <2>1. \A x \in 1 .. n : (\A y \in 1 .. n : x >= y) <=> x = n
    OBVIOUS
  <2> QED BY <2>1 DEF Max
<1> QED BY <1>1, <1>2

LEMMA OnlyOne ==
  ASSUME NEW k \in Int PROVE Max({k}) = k
BY DEF Max

LEMMA AllTrimmed ==
  ASSUME NEW S, NEW s \in Seq(S), s # <<>>, \A i \in 1 .. Len(s) : s[i] \notin Blanks
  PROVE  Trim(s) = s
<1>1. Len(s) \in Nat \ {0} /\ DOMAIN s = 1 .. Len(s)
  OBVIOUS
<1>2. {i \in DOMAIN s : s[i] \notin Blanks} = 1 .. Len(s)
  BY <1>1
<1>3. 1 .. Len(s) # {}
  BY <1>1
<1>4. SubSeq(s, 1, Len(s)) = s
  BY PrefixIs
<1>5. Min(1 .. Len(s)) = 1 /\ Max(1 .. Len(s)) = Len(s)
  BY <1>1, EndsOf
<1> QED BY <1>2, <1>3, <1>4, <1>5, Zenon DEF Trim

LEMMA WordsTrimmed ==
  /\ \A word \in Words : Trim(<<word>>) = <<word>>
  /\ Trim(<<"w">>) = <<"w">> /\ <<"w">> # <<>>
<1>1. ASSUME NEW word \in Words \cup {"w"} PROVE Trim(<<word>>) = <<word>>
  <2> DEFINE s == <<word>>
  <2>1. s \in Seq({word}) /\ s # <<>> /\ Len(s) = 1 /\ s[1] = word
    OBVIOUS
  <2>2. word \notin Blanks
    BY DEF Words, Blanks, NewLine
  <2>3. \A i \in 1 .. Len(s) : s[i] \notin Blanks
    <3> HIDE DEF s
    <3> QED BY <2>1, <2>2, OneOnly
  <2> HIDE DEF s
  <2>4. Trim(s) = s
    BY <2>1, <2>3, AllTrimmed
  <2> QED BY <2>4, Zenon DEF s
<1>2. <<"w">> # <<>>
  OBVIOUS
<1>3. "w" \in Words \cup {"w"} /\ \A word \in Words : word \in Words \cup {"w"}
  OBVIOUS
<1> QED BY <1>1, <1>2, <1>3, Zenon

\* The columns by name.
Names == <<<<"sku">>, <<"name">>, <<"sale_price">>, <<"reorder_point">>, <<"description">>, <<"is_active">>>>

Six(s, a, b, c, d, e, f) ==
  /\ s[1] = a /\ s[2] = b /\ s[3] = c /\ s[4] = d /\ s[5] = e /\ s[6] = f
  /\ DOMAIN s = 1 .. 6 /\ Len(s) = 6 /\ s = [i \in 1 .. 6 |-> s[i]]

LEMMA SixCells ==
  ASSUME NEW a, NEW b, NEW c, NEW d, NEW e, NEW f
  PROVE  Six(<<a, b, c, d, e, f>>, a, b, c, d, e, f)
BY DEF Six

LEMMA OneToSix == \A c \in 1 .. 6 : c = 1 \/ c = 2 \/ c = 3 \/ c = 4 \/ c = 5 \/ c = 6
OBVIOUS

\* Either title of the price is read as the same one.
LEMMA TitlesAre ==
  ASSUME NEW price \in {"sale_price", "Sale Price"}
  PROVE  [c \in DOMAIN Titles(price) |-> normalizeHeader(Trim(Titles(price)[c]))] = Names
<1> DEFINE t == Titles(price)
           h == [c \in DOMAIN t |-> normalizeHeader(Trim(t[c]))]
<1>1. /\ t[1] = <<"sku">> /\ t[2] = <<"name">> /\ t[3] = <<price>> /\ t[4] = <<"reorder_point">>
      /\ t[5] = <<"description">> /\ t[6] = <<"is_active">> /\ DOMAIN t = 1 .. 6
  <2>1. Six(t, <<"sku">>, <<"name">>, <<price>>, <<"reorder_point">>, <<"description">>, <<"is_active">>)
    BY SixCells, Zenon DEF Titles
  <2> HIDE DEF t
  <2> QED BY <2>1, Zenon DEF Six
<1>2. Six(Names, <<"sku">>, <<"name">>, <<"sale_price">>, <<"reorder_point">>, <<"description">>, <<"is_active">>)
  BY SixCells, Zenon DEF Names
<1>3. /\ normalizeHeader(<<"sku">>) = <<"sku">> /\ normalizeHeader(<<"name">>) = <<"name">>
      /\ normalizeHeader(<<price>>) = <<"sale_price">> /\ normalizeHeader(<<"reorder_point">>) = <<"reorder_point">>
      /\ normalizeHeader(<<"description">>) = <<"description">>
      /\ normalizeHeader(<<"is_active">>) = <<"is_active">>
  BY DEF normalizeHeader
<1>4. /\ "sku" \in Words /\ "name" \in Words /\ price \in Words /\ "reorder_point" \in Words
      /\ "description" \in Words /\ "is_active" \in Words
  BY DEF Words
<1>5. /\ Trim(t[1]) = <<"sku">> /\ Trim(t[2]) = <<"name">> /\ Trim(t[3]) = <<price>>
      /\ Trim(t[4]) = <<"reorder_point">> /\ Trim(t[5]) = <<"description">> /\ Trim(t[6]) = <<"is_active">>
  BY <1>1, <1>4, WordsTrimmed, Zenon
<1>6. /\ normalizeHeader(Trim(t[1])) = Names[1] /\ normalizeHeader(Trim(t[2])) = Names[2]
      /\ normalizeHeader(Trim(t[3])) = Names[3] /\ normalizeHeader(Trim(t[4])) = Names[4]
      /\ normalizeHeader(Trim(t[5])) = Names[5] /\ normalizeHeader(Trim(t[6])) = Names[6]
  <2>1. /\ Names[1] = <<"sku">> /\ Names[2] = <<"name">> /\ Names[3] = <<"sale_price">>
        /\ Names[4] = <<"reorder_point">> /\ Names[5] = <<"description">> /\ Names[6] = <<"is_active">>
    BY <1>2, Zenon DEF Six
  <2> QED BY <1>3, <1>5, <2>1, Zenon
<1>7. Names = [c \in 1 .. 6 |-> Names[c]]
  BY <1>2, Zenon DEF Six
<1> HIDE DEF t
<1>8. \A c \in 1 .. 6 : normalizeHeader(Trim(t[c])) = Names[c]
  BY <1>6, OneToSix, Zenon
<1>9. h = [c \in 1 .. 6 |-> Names[c]]
  BY <1>1, <1>8, Zenon
<1> QED BY <1>7, <1>9, Zenon DEF t

LEMMA HeadersAre ==
  ASSUME records[1] = Titles("sale_price") \/ records[1] = Titles("Sale Price") PROVE headers = Names
<1>1. PICK price \in {"sale_price", "Sale Price"} : records[1] = Titles(price)
  OBVIOUS
<1> QED BY <1>1, TitlesAre, Zenon DEF headers

LEMMA NamesAre ==
  /\ Names[1] = <<"sku">> /\ Names[2] = <<"name">> /\ Names[3] = <<"sale_price">>
  /\ Names[4] = <<"reorder_point">> /\ Names[5] = <<"description">> /\ Names[6] = <<"is_active">>
  /\ DOMAIN Names = 1 .. 6 /\ Len(Names) = 6
<1>1. Six(Names, <<"sku">>, <<"name">>, <<"sale_price">>, <<"reorder_point">>, <<"description">>, <<"is_active">>)
  BY SixCells, Zenon DEF Names
<1> QED BY <1>1, Zenon DEF Six

\* A row of a product is accepted as the product.
LEMMA ProductIs ==
  ASSUME NEW product \in Stored, headers = Names
  PROVE  Product(Cells(product)) = product /\ Parsed(Cells(product))
<1> DEFINE x == Cells(product)
<1>1. headers = Names
  OBVIOUS
<1>2. /\ x[1] = product.sku /\ x[2] = product.name /\ x[3] = <<"w">> /\ x[4] = <<"w">>
      /\ x[5] = product.description /\ x[6] = <<"w">> /\ DOMAIN x = 1 .. 6 /\ Len(x) = 6
  <2>1. Six(x, product.sku, product.name, <<"w">>, <<"w">>, product.description, <<"w">>)
    BY SixCells, Zenon DEF Cells
  <2> HIDE DEF x
  <2> QED BY <2>1, Zenon DEF Six
<1>3. DOMAIN Names = 1 .. 6 /\ Len(Names) = 6
  BY NamesAre, Zenon
<1> HIDE DEF x
<1>4. ASSUME NEW k \in 1 .. 6, NEW title, Names[k] = <<title>>, \A c \in 1 .. 6 : Names[c] = <<title>> => c = k
      PROVE  Raw(x, title) = Trim(x[k])
  <2> DEFINE columns == {c \in DOMAIN headers \cap DOMAIN x : headers[c] = <<title>>}
  <2>1. columns = {k}
    BY <1>1, <1>2, <1>3, <1>4
  <2>2. Max(columns) = k /\ columns # {}
    BY <2>1, OnlyOne
  <2> HIDE DEF columns
  <2>3. Raw(x, title) = IF columns = {} THEN <<>> ELSE Trim(x[Max(columns)])
    BY Zenon DEF Raw, columns
  <2> QED BY <2>2, <2>3
<1>5. /\ Raw(x, "sku") = Trim(product.sku) /\ Raw(x, "name") = Trim(product.name)
      /\ Raw(x, "sale_price") = <<"w">> /\ Raw(x, "reorder_point") = <<"w">>
      /\ Raw(x, "description") = Trim(product.description)
  <2>1. /\ <<"sku">> # <<"name">> /\ <<"sku">> # <<"sale_price">> /\ <<"sku">> # <<"reorder_point">>
        /\ <<"sku">> # <<"description">> /\ <<"sku">> # <<"is_active">>
        /\ <<"name">> # <<"sale_price">> /\ <<"name">> # <<"reorder_point">>
        /\ <<"name">> # <<"description">> /\ <<"name">> # <<"is_active">>
        /\ <<"sale_price">> # <<"reorder_point">> /\ <<"sale_price">> # <<"description">>
        /\ <<"sale_price">> # <<"is_active">> /\ <<"reorder_point">> # <<"description">>
        /\ <<"reorder_point">> # <<"is_active">> /\ <<"description">> # <<"is_active">>
    OBVIOUS
  <2>2. /\ \A c \in 1 .. 6 : Names[c] = <<"sku">> => c = 1
        /\ \A c \in 1 .. 6 : Names[c] = <<"name">> => c = 2
        /\ \A c \in 1 .. 6 : Names[c] = <<"sale_price">> => c = 3
        /\ \A c \in 1 .. 6 : Names[c] = <<"reorder_point">> => c = 4
        /\ \A c \in 1 .. 6 : Names[c] = <<"description">> => c = 5
    BY NamesAre, <2>1, OneToSix, Zenon
  <2>3. 1 \in 1 .. 6 /\ 2 \in 1 .. 6 /\ 3 \in 1 .. 6 /\ 4 \in 1 .. 6 /\ 5 \in 1 .. 6
    OBVIOUS
  <2>4. Raw(x, "sku") = Trim(x[1])
    BY NamesAre, <1>4, <2>2, <2>3, Zenon
  <2>5. Raw(x, "name") = Trim(x[2])
    BY NamesAre, <1>4, <2>2, <2>3, Zenon
  <2>6. Raw(x, "sale_price") = Trim(x[3])
    BY NamesAre, <1>4, <2>2, <2>3, Zenon
  <2>7. Raw(x, "reorder_point") = Trim(x[4])
    BY NamesAre, <1>4, <2>2, <2>3, Zenon
  <2>8. Raw(x, "description") = Trim(x[5])
    BY NamesAre, <1>4, <2>2, <2>3, Zenon
  <2> QED BY <1>2, <2>4, <2>5, <2>6, <2>7, <2>8, WordsTrimmed, Zenon
<1>6. /\ product.sku \in Seq({"w"}) /\ product.sku # <<>> /\ product.name # <<>>
      /\ Trim(product.name) = product.name /\ Trim(product.description) = product.description
      /\ product = [sku |-> product.sku, name |-> product.name, description |-> product.description]
  BY DEF Stored
<1>7. Trim(product.sku) = product.sku /\ ToSet(product.sku) = {"w"}
  <2> DEFINE s == product.sku
  <2>1. s \in Seq({"w"}) /\ s # <<>>
    BY <1>6
  <2> HIDE DEF s
  <2>2. "w" \notin Blanks
    BY DEF Blanks, NewLine
  <2>3. DOMAIN s = 1 .. Len(s) /\ 1 \in 1 .. Len(s) /\ \A i \in 1 .. Len(s) : s[i] = "w"
    BY <2>1
  <2>4. Trim(s) = s
    BY <2>1, <2>2, <2>3, AllTrimmed
  <2>5. ToSet(s) = {"w"}
    BY <2>3 DEF ToSet
  <2> QED BY <2>4, <2>5, Zenon DEF s
<1>8. Product(x) = product
  BY <1>5, <1>6, <1>7, Zenon DEF Product
<1>9. Parsed(x)
  <2>1. Len(x) <= Len(headers)
    BY <1>1, <1>2, <1>3
  <2> QED BY <1>5, <1>6, <1>7, <2>1, Zenon DEF Parsed
<1> QED BY <1>1, <1>8, <1>9, Zenon DEF x

-----------------------------------------------------------------------------
(* Which rows are looked at, and as what.                                    *)

\* If only the last row may be blank, the others are numbered as they are, or all of them.
LEMMA MostOf ==
  ASSUME NEW n \in Nat, n >= 2, NEW F, F \subseteq 2 .. n, \A i \in 2 .. n : i < n => i \in F
  PROVE  (n \in F => F = 2 .. n) /\ (n \notin F => F = 2 .. n - 1)
<1>1. \A i \in 2 .. n : i < n \/ i = n
  OBVIOUS
<1>2. n \in 2 .. n
  OBVIOUS
<1>3. \A i : i \in 2 .. n - 1 <=> i \in 2 .. n /\ i < n
  OBVIOUS
<1>4. n \in F => F = 2 .. n
  BY <1>1
<1>5. n \notin F => F = 2 .. n - 1
  <2>1. SUFFICES ASSUME n \notin F PROVE F = 2 .. n - 1
    OBVIOUS
  <2>2. \A i : i \in F <=> i \in 2 .. n /\ i < n
    BY <1>1, <2>1, Zenon
  <2> QED BY <1>3, <2>2, Zenon
<1> QED BY <1>4, <1>5

\* The k-th of the rows from 2 on is row k + 1.
LEMMA CountOf ==
  ASSUME NEW m \in Nat \ {0}
  PROVE  /\ Cardinality(2 .. m) = m - 1
         /\ \A k \in 1 .. m - 1 : (CHOOSE i \in 2 .. m : Cardinality({j \in 2 .. m : j <= i}) = k) = k + 1
<1>1. Cardinality(2 .. m) = m - 1
  <2>1. Cardinality(2 .. m) = IF 2 > m THEN 0 ELSE m - 2 + 1
    BY FS_Interval
  <2> QED BY <2>1
<1>2. ASSUME NEW i \in 2 .. m PROVE Cardinality({j \in 2 .. m : j <= i}) = i - 1
  <2>1. {j \in 2 .. m : j <= i} = 2 .. i
    OBVIOUS
  <2>2. Cardinality(2 .. i) = IF 2 > i THEN 0 ELSE i - 2 + 1
    BY FS_Interval
  <2>3. i - 2 + 1 = i - 1 /\ ~(2 > i)
    OBVIOUS
  <2> QED BY <2>1, <2>2, <2>3, Zenon
<1>3. ASSUME NEW k \in 1 .. m - 1
      PROVE (CHOOSE i \in 2 .. m : Cardinality({j \in 2 .. m : j <= i}) = k) = k + 1
  <2> DEFINE Is(i) == Cardinality({j \in 2 .. m : j <= i}) = k
  <2>1. \A i \in 2 .. m : Is(i) <=> i - 1 = k
    BY <1>2, Zenon
  <2> HIDE DEF Is
  <2>2. PICK e : e = k + 1
    OBVIOUS
  <2>3. e \in 2 .. m /\ e - 1 = k /\ \A i \in 2 .. m : i - 1 = k => i = e
    BY <2>2
  <2>4. Is(e) /\ \A i \in 2 .. m : Is(i) => i = e
    BY <2>1, <2>3, Zenon
  <2>5. (CHOOSE i \in 2 .. m : Is(i)) = k + 1
    BY <2>2, <2>3, <2>4
  <2> QED BY <2>5, Zenon DEF Is
<1> QED BY <1>1, <1>3

LEMMA DataAre ==
  ASSUME NEW m \in Nat \ {0}, filled = 2 .. m
  PROVE  dataRecords = [k \in 1 .. m - 1 |-> records[k + 1]] /\ Len(dataRecords) = m - 1
<1> DEFINE pick(k) == CHOOSE i \in 2 .. m : Cardinality({j \in 2 .. m : j <= i}) = k
           Picks(F) ==
             [k \in 1 .. Cardinality(F) |->
                records[CHOOSE i \in F : Cardinality({j \in F : j <= i}) = k]]
<1>1. dataRecords = [k \in 1 .. Cardinality(2 .. m) |-> records[pick(k)]]
  <2>1. dataRecords = Picks(filled)
    BY Zenon DEF dataRecords
  <2>2. Picks(filled) = Picks(2 .. m)
    <3> HIDE DEF Picks
    <3> QED BY Zenon
  <2> QED BY <2>1, <2>2, Zenon
<1>2. Cardinality(2 .. m) = m - 1 /\ \A k \in 1 .. m - 1 : pick(k) = k + 1
  BY CountOf
<1> HIDE DEF pick
<1>3. dataRecords = [k \in 1 .. m - 1 |-> records[k + 1]]
  <2>1. \A k \in 1 .. m - 1 : records[pick(k)] = records[k + 1]
    BY <1>2, Zenon
  <2> QED BY <1>1, <1>2, <2>1, Zenon
<1>4. Len(dataRecords) = m - 1
  <2>1. dataRecords \in [1 .. m - 1 -> {records[k + 1] : k \in 1 .. m - 1}]
    BY <1>3
  <2>2. m - 1 \in Nat
    OBVIOUS
  <2> QED BY <2>1, <2>2, ListIs, Zenon
<1> QED BY <1>3, <1>4

\* The rows up to m are looked at.
Upon(m) ==
  /\ m \in 1 .. Len(exported) + 1 /\ filled = 2 .. m
  /\ m # 1 \/ ~cut => headers = Names /\ records # <<>>
  /\ \A i \in 1 .. m - 1 : i < m - 1 \/ ~cut => records[i + 1] = Cells(exported[i])
  /\ ~cut => m = Len(exported) + 1

\* A row of a product is not blank, for its SKU is not.
LEMMA RowIsFilled ==
  ASSUME NEW product \in Stored, NEW i \in 2 .. Len(records), records[i] = Cells(product)
  PROVE  i \in filled
<1> DEFINE x == Cells(product)
<1>1. Six(x, product.sku, product.name, <<"w">>, <<"w">>, product.description, <<"w">>)
  BY SixCells, Zenon DEF Cells
<1> HIDE DEF x
<1>2. x[3] = <<"w">> /\ 3 \in DOMAIN x
  <2>1. 3 \in 1 .. 6
    OBVIOUS
  <2> QED BY <1>1, <2>1, Zenon DEF Six
<1>3. <<"w">> \in ToSet(x)
  BY <1>2 DEF ToSet
<1>4. \E value \in ToSet(x) : Trim(value) # <<>>
  BY <1>3, WordsTrimmed, Zenon
<1> QED BY <1>4, Zenon DEF filled, x

\* The rows that are looked at are the first ones, without a gap.
LEMMA RowsLookedAt ==
  ASSUME NEW text, NEW table, NEW N, NEW places, NEW tail \in BOOLEAN, File(text, table, N, places, tail),
         Read(table, N, tail)
  PROVE  \E m : Upon(m)
<1> DEFINE n == Len(exported)
           L == Len(records)
<1>1. /\ exported \in Seq(Stored) /\ n \in Nat /\ \A i \in 1 .. n : exported[i] \in Stored
      /\ N = n + (IF tail THEN 2 ELSE 1) /\ Len(table) = N
      /\ \A i \in 1 .. n : table[i + 1] = Cells(exported[i])
  <2>1. exported \in Seq(Stored) /\ Shape(table, N, exported, tail)
    BY Zenon DEF File
  <2> QED BY <2>1, SeqIs, Zenon DEF Shape
<1>2. /\ L \in Nat /\ L <= N /\ cut \in BOOLEAN /\ (~cut => records = table /\ L = N)
      /\ \A i \in 1 .. L : i < L => records[i] = table[i]
      /\ tail /\ L = N => \A value \in ToSet(records[N]) : Trim(value) = <<>>
  <2>1. records \in Seq(Rows)
    BY Zenon DEF Read
  <2> QED BY <1>1, <2>1, SeqIs, Zenon DEF Read
<1>3. 1 < L \/ ~cut => headers = Names /\ records # <<>>
  <2>1. SUFFICES ASSUME 1 < L \/ ~cut PROVE headers = Names /\ records # <<>>
    OBVIOUS
  <2>2. L >= 1
    BY <1>1, <1>2, <2>1
  <2>3. records[1] = table[1]
    BY <1>2, <2>1, <2>2
  <2>4. table[1] = Titles("sale_price") \/ table[1] = Titles("Sale Price")
    BY Zenon DEF File, Shape
  <2>5. headers = Names
    BY <2>3, <2>4, HeadersAre, Zenon
  <2>6. records # <<>>
    <3>1. Len(<<>>) = 0 /\ L # 0
      BY <2>2
    <3> QED BY <3>1, Zenon
  <2> QED BY <2>5, <2>6
<1>4. ASSUME NEW i \in 2 .. L, records[i] = table[i], i <= n + 1
      PROVE  i \in filled /\ i - 1 \in 1 .. n /\ records[i] = Cells(exported[i - 1])
  <2>1. i - 1 \in 1 .. n /\ i - 1 + 1 = i
    BY <1>1, <1>2, <1>4
  <2>2. table[i - 1 + 1] = Cells(exported[i - 1]) /\ exported[i - 1] \in Stored
    BY <1>1, <2>1, Zenon
  <2>3. records[i] = Cells(exported[i - 1])
    BY <1>4, <2>1, <2>2, Zenon
  <2> QED BY <2>1, <2>2, <2>3, RowIsFilled, Zenon
<1>5. filled \subseteq 2 .. L
  BY Zenon DEF filled
<1>6. (1 < L \/ ~cut => headers = Names /\ records # <<>>) /\ cut \in BOOLEAN /\ n \in Nat /\ L \in Nat
  BY <1>1, <1>2, <1>3
<1> HIDE DEF n, L
<1>7. CASE L <= 1
  <2>1. filled = 2 .. 1
    BY <1>5, <1>6, <1>7
  <2>2. 1 \in 1 .. n + 1 /\ 1 .. 1 - 1 = {}
    BY <1>6
  <2>3. ~cut => 1 = n + 1
    BY <1>1, <1>2, <1>7
  <2>4. 1 # 1 \/ ~cut => headers = Names /\ records # <<>>
    BY <1>6, Zenon
  <2>5. \A i \in 1 .. 1 - 1 : i < 1 - 1 \/ ~cut => records[i + 1] = Cells(exported[i])
    BY <2>2, Zenon
  <2>6. Upon(1)
    BY <2>1, <2>2, <2>3, <2>4, <2>5 DEF Upon, n
  <2> QED BY <2>6
<1>8. CASE L >= 2
  <2>1. headers = Names /\ records # <<>>
    <3>1. 1 < L
      BY <1>6, <1>8
    <3> QED BY <1>6, <3>1, Zenon
  <2>2. \A i \in 2 .. L : i < L => records[i] = table[i] /\ i <= n + 1
    <3>1. ASSUME NEW i \in 2 .. L, i < L PROVE records[i] = table[i] /\ i <= n + 1
      <4>1. i \in 1 .. L
        BY <1>6
      <4>2. i <= n + 1
        BY <1>1, <1>2, <3>1
      <4> QED BY <1>2, <3>1, <4>1, <4>2, Zenon
    <3> QED BY <3>1
  <2>3. \A i \in 2 .. L : i < L => i \in filled /\ i - 1 \in 1 .. n /\ records[i] = Cells(exported[i - 1])
    BY <1>4, <2>2, Zenon
  <2>4. (L \in filled => filled = 2 .. L) /\ (L \notin filled => filled = 2 .. L - 1)
    BY <1>5, <1>6, <1>8, <2>3, MostOf
  <2>5. tail /\ L = N => L \notin filled
    BY <1>2, Zenon DEF filled
  <2>6. ~(tail /\ L = N) => L <= n + 1
    BY <1>1, <1>2
  <2>7. ~cut => (L \in filled /\ records[L] = Cells(exported[L - 1]) /\ ~tail) \/ (tail /\ L = N)
    <3>1. SUFFICES ASSUME ~cut, ~(tail /\ L = N)
          PROVE L \in filled /\ records[L] = Cells(exported[L - 1]) /\ ~tail
      OBVIOUS
    <3>2. records[L] = table[L] /\ ~tail /\ L \in 2 .. L
      BY <1>2, <1>8, <3>1
    <3> QED BY <1>4, <2>6, <3>1, <3>2
  <2>8. CASE L \in filled
    <3>1. filled = 2 .. L /\ ~(tail /\ L = N) /\ L <= n + 1
      BY <2>4, <2>5, <2>6, <2>8, Zenon
    <3>2. L \in 1 .. n + 1
      BY <1>6, <1>8, <3>1
    <3>3. ~cut => L = n + 1
      <4>1. ~cut => ~tail /\ L = N
        BY <1>2, <2>7, <3>1
      <4> QED BY <1>1, <4>1
    <3>4. ASSUME NEW i \in 1 .. L - 1, i < L - 1 \/ ~cut PROVE records[i + 1] = Cells(exported[i])
      <4>1. PICK j : j = i + 1
        OBVIOUS
      <4>2. j \in 2 .. L /\ j - 1 = i /\ (j < L \/ (j = L /\ ~cut))
        BY <1>6, <3>4, <4>1
      <4>3. records[j] = Cells(exported[j - 1])
        BY <2>3, <2>7, <3>1, <4>2, Zenon
      <4> QED BY <4>1, <4>2, <4>3, Zenon
    <3>5. Upon(L)
      BY <2>1, <3>1, <3>2, <3>3, <3>4, Zenon DEF Upon, n
    <3> QED BY <3>5
  <2>9. CASE L \notin filled
    <3>1. filled = 2 .. L - 1
      BY <2>4, <2>9
    <3>2. L - 1 \in 1 .. n + 1 /\ (~cut => L - 1 = n + 1)
      BY <1>1, <1>2, <1>8, <2>7, <2>9
    <3>3. ASSUME NEW i \in 1 .. L - 1 - 1 PROVE records[i + 1] = Cells(exported[i])
      <4>1. PICK j : j = i + 1
        OBVIOUS
      <4>2. j \in 2 .. L /\ j - 1 = i /\ j < L
        BY <1>6, <4>1
      <4>3. records[j] = Cells(exported[j - 1])
        BY <2>3, <4>2, Zenon
      <4> QED BY <4>1, <4>2, <4>3, Zenon
    <3>4. Upon(L - 1)
      BY <2>1, <3>1, <3>2, <3>3, Zenon DEF Upon, n
    <3> QED BY <3>4
  <2> QED BY <2>8, <2>9
<1> QED BY <1>6, <1>7, <1>8

\* What is written in its place is taken for the product that it was.
LEMMA AcceptedAre ==
  ASSUME exported \in Seq(Stored), NEW m \in Nat \ {0}, m <= Len(exported) + 1,
         dataRecords = [k \in 1 .. m - 1 |-> records[k + 1]], headers = Names,
         NEW w \in 1 .. m - 1, \A i \in 1 .. w : records[i + 1] = Cells(exported[i])
  PROVE  /\ w \in Accepted <=> w \in Missing
         /\ Product(dataRecords[w]) = exported[w]
<1>1. Len(exported) \in Nat /\ DOMAIN exported = 1 .. Len(exported) /\ \A i \in 1 .. Len(exported) : exported[i] \in Stored
  BY SeqIs, Zenon
<1>2. ASSUME NEW i \in 1 .. w
      PROVE  /\ i \in 1 .. Len(exported) /\ i \in DOMAIN dataRecords
             /\ Product(dataRecords[i]) = exported[i] /\ Parsed(dataRecords[i])
  <2>1. i \in 1 .. m - 1 /\ i \in 1 .. Len(exported)
    BY <1>1
  <2>2. dataRecords[i] = Cells(exported[i]) /\ i \in DOMAIN dataRecords
    BY <2>1, Zenon
  <2> QED BY <1>1, <2>1, <2>2, ProductIs, Zenon
<1>3. w \in 1 .. w /\ \A j \in 1 .. w - 1 : j \in 1 .. w
  OBVIOUS
<1>4. w \in Accepted <=> IsNew(w)
  BY <1>2, <1>3, Zenon DEF Accepted
<1>5. IsNew(w) <=> /\ exported[w].sku \notin existing
                   /\ \A j \in 1 .. w - 1 : exported[j].sku # exported[w].sku
  BY <1>2, <1>3, Zenon DEF IsNew
<1>6. w \in Missing <=> /\ exported[w].sku \notin existing
                        /\ \A j \in 1 .. w - 1 : exported[j].sku # exported[w].sku
  BY <1>1, <1>2, <1>3, Zenon DEF Missing
<1> QED BY <1>2, <1>3, <1>4, <1>5, <1>6, Zenon

\* A whole file has its titles; it is refused only when it is too long.
LEMMA RefuseIsRight ==
  ASSUME NEW text, NEW table, NEW N, NEW places, NEW tail \in BOOLEAN, File(text, table, N, places, tail),
         Read(table, N, tail), Refuse, ~cut
  PROVE  Len(exported) > MaxRows
<1>1. PICK m : Upon(m)
  BY RowsLookedAt
<1>2. headers = Names /\ records # <<>> /\ m = Len(exported) + 1 /\ filled = 2 .. m /\ m \in 1 .. Len(exported) + 1
  BY <1>1, Zenon DEF Upon
<1>3. Len(exported) \in Nat
  BY SeqIs, Zenon DEF File
<1>4. Len(dataRecords) = m - 1
  <2>1. m \in Nat \ {0}
    BY <1>2, <1>3
  <2> QED BY <1>2, <2>1, DataAre, Zenon
<1>5. REQUIRED_HEADERS \subseteq ToSet(headers)
  <2>1. 1 \in 1 .. 6 /\ 2 \in 1 .. 6 /\ 3 \in 1 .. 6 /\ 4 \in 1 .. 6
    OBVIOUS
  <2>2. Names[1] \in ToSet(Names) /\ Names[2] \in ToSet(Names) /\ Names[3] \in ToSet(Names) /\ Names[4] \in ToSet(Names)
    BY <2>1, NamesAre, Zenon DEF ToSet
  <2>3. REQUIRED_HEADERS \subseteq ToSet(Names)
    BY <2>2, NamesAre, Zenon DEF REQUIRED_HEADERS
  <2> QED BY <1>2, <2>3, Zenon
<1>6. Len(dataRecords) > MaxRows
  BY <1>2, <1>5, Zenon DEF Refuse
<1> QED BY <1>2, <1>3, <1>4, <1>6

\* What the preview shows is right.
LEMMA PreviewIsRight ==
  ASSUME NEW text, NEW table, NEW N, NEW places, NEW tail \in BOOLEAN, File(text, table, N, places, tail),
         Read(table, N, tail), Preview
  PROVE  ProductsComeBack'
<1> DEFINE n == Len(exported)
<1>1. PICK m : Upon(m)
  BY RowsLookedAt
<1>2. exported \in Seq(Stored) /\ n \in Nat /\ DOMAIN exported = 1 .. n
  BY SeqIs, Zenon DEF File
<1>3. /\ m \in 1 .. n + 1 /\ filled = 2 .. m /\ (m # 1 \/ ~cut => headers = Names /\ records # <<>>)
      /\ \A i \in 1 .. m - 1 : i < m - 1 \/ ~cut => records[i + 1] = Cells(exported[i])
      /\ ~cut => m = n + 1
  BY <1>1, Zenon DEF Upon
<1>4. /\ csvPc' = "previewed" /\ exported' = exported /\ existing' = existing /\ cut' = cut
      /\ validRows' = [i \in {i + 1 : i \in Accepted} |-> Product(dataRecords[i - 1])]
      /\ errors' = {i + 1 : i \in DOMAIN dataRecords \ Accepted}
  BY DEF Preview
<1> HIDE DEF n
<1>5. m \in Nat \ {0} /\ m <= n + 1
  BY <1>2, <1>3
<1>6. dataRecords = [k \in 1 .. m - 1 |-> records[k + 1]] /\ DOMAIN dataRecords = 1 .. m - 1
  <2>1. dataRecords = [k \in 1 .. m - 1 |-> records[k + 1]]
    BY <1>3, <1>5, DataAre, Zenon
  <2> QED BY <2>1, Zenon
<1>7. ASSUME NEW w \in 1 .. m - 1, w < m - 1 \/ ~cut
      PROVE  (w \in Accepted <=> w \in Missing) /\ Product(dataRecords[w]) = exported[w]
  <2>1. headers = Names
    <3>1. m # 1
      BY <1>5
    <3> QED BY <1>3, <3>1, Zenon
  <2>2. \A i \in 1 .. w : i \in 1 .. m - 1 /\ (i < m - 1 \/ ~cut)
    BY <1>5, <1>7
  <2>3. \A i \in 1 .. w : records[i + 1] = Cells(exported[i])
    BY <1>3, <2>2, Zenon
  <2> QED BY <1>2, <1>5, <1>6, <2>1, <2>3, AcceptedAre, Zenon DEF n
<1>8. Accepted \subseteq 1 .. m - 1
  BY <1>6, Zenon DEF Accepted
<1>9. Missing \subseteq 1 .. n
  BY <1>2, Zenon DEF Missing
<1>10. Missing' = Missing /\ Expected' = Expected /\ Len(exported') = n
  BY <1>4, Zenon DEF Missing, Expected, n
<1>11. Expected = [i \in {i + 1 : i \in Missing} |-> exported[i - 1]]
  BY Zenon DEF Expected
<1>12. ASSUME ~cut
       PROVE  validRows' = Expected /\ errors' = {i + 1 : i \in DOMAIN exported \ Missing}
  <2>1. m - 1 = n
    BY <1>2, <1>3, <1>12
  <2>2. Accepted = Missing
    BY <1>7, <1>8, <1>9, <1>12, <2>1, Zenon
  <2>3. ASSUME NEW i \in {i + 1 : i \in Missing} PROVE Product(dataRecords[i - 1]) = exported[i - 1]
    <3>1. PICK w \in Missing : i = w + 1
      OBVIOUS
    <3>2. w \in 1 .. m - 1 /\ i - 1 = w
      BY <1>9, <2>1, <3>1, <1>2
    <3> QED BY <1>7, <1>12, <3>2, Zenon
  <2>4. validRows' = Expected
    BY <1>4, <1>11, <2>2, <2>3, Zenon
  <2> QED BY <1>2, <1>4, <1>6, <2>1, <2>2, <2>4, Zenon
<1>13. ASSUME cut
       PROVE  LET numbers == DOMAIN validRows' \cup errors'
              IN  /\ numbers \subseteq 2 .. n + 1
                  /\ \A i \in numbers : (\E j \in numbers : j > i) =>
                       /\ i \in DOMAIN validRows' <=> i \in DOMAIN Expected
                       /\ i \in DOMAIN validRows' => validRows'[i] = Expected[i]
  <2> DEFINE numbers == DOMAIN validRows' \cup errors'
  <2>1. DOMAIN validRows' = {i + 1 : i \in Accepted}
    BY <1>4, Zenon
  <2>2. numbers \subseteq 2 .. m
    <3>1. \A i \in 1 .. m - 1 : i + 1 \in 2 .. m
      BY <1>5
    <3> QED BY <1>4, <1>6, <1>8, <2>1, <3>1
  <2>3. numbers \subseteq 2 .. n + 1
    <3>1. \A i \in 2 .. m : i \in 2 .. n + 1
      BY <1>2, <1>5
    <3> QED BY <2>2, <3>1, Zenon
  <2>4. ASSUME NEW i \in numbers, NEW j \in numbers, j > i
        PROVE  /\ i \in DOMAIN validRows' <=> i \in DOMAIN Expected
               /\ i \in DOMAIN validRows' => validRows'[i] = Expected[i]
    <3> HIDE DEF numbers
    <3>1. PICK w : w = i - 1
      OBVIOUS
    <3>2. w \in 1 .. m - 1 /\ w < m - 1 /\ i = w + 1 /\ i - 1 = w
      <4>1. i \in 2 .. m /\ j \in 2 .. m
        BY <2>2, <2>4
      <4> QED BY <1>5, <2>4, <3>1, <4>1
    <3>3. (w \in Accepted <=> w \in Missing) /\ Product(dataRecords[w]) = exported[w]
      BY <1>7, <3>2, Zenon
    <3>4. \A S : S \subseteq Int => (i \in {k + 1 : k \in S} <=> w \in S)
      BY <3>2
    <3>5. Accepted \subseteq Int /\ Missing \subseteq Int
      BY <1>8, <1>9
    <3>6. DOMAIN Expected = {k + 1 : k \in Missing}
      BY <1>11, Zenon
    <3>7. (i \in DOMAIN validRows' <=> w \in Accepted) /\ (i \in DOMAIN Expected <=> w \in Missing)
      BY <2>1, <3>4, <3>5, <3>6, Zenon
    <3>8. i \in DOMAIN validRows' => validRows'[i] = Product(dataRecords[i - 1])
      BY <1>4, Zenon
    <3>9. i \in DOMAIN Expected => Expected[i] = exported[i - 1]
      BY <1>11, Zenon
    <3> QED BY <3>2, <3>3, <3>7, <3>8, <3>9, Zenon
  <2> QED BY <2>3, <2>4
<1> QED BY <1>4, <1>10, <1>12, <1>13, Zenon DEF ProductsComeBack

-----------------------------------------------------------------------------
(* The theorem.                                                             *)

\* What is true of every file: while it is read, the parser is where it should be.
CsvPart(text, table, N, places, tail) ==
  /\ tail \in BOOLEAN /\ File(text, table, N, places, tail)
  /\ csvPc = "parsing" => Parsing(text, table, N, places, tail)
  /\ csvPc = "parsed" => Read(table, N, tail)
CsvInv ==
  /\ csvPc \in {"parsing", "parsed", "refused", "previewed"} /\ ProductsComeBack
  /\ \E text, table, N, places, tail : CsvPart(text, table, N, places, tail)

LEMMA WholeIsLeft ==
  ASSUME NEW S, normalized \in Seq(S), cut = FALSE, index = 1, quoted = FALSE
  PROVE  LeftOf(normalized) /\ index \in Nat \ {0} /\ quoted \in BOOLEAN
<1>1. Len(normalized) \in Nat /\ DOMAIN normalized = 1 .. Len(normalized)
  BY SeqIs, Zenon
<1>2. Len(normalized) <= Len(normalized) /\ index \in Nat \ {0}
  BY <1>1
<1>3. cut \in BOOLEAN /\ ~cut /\ quoted \in BOOLEAN
  OBVIOUS
<1>4. \E T : normalized \in Seq(T)
  OBVIOUS
<1>5. LeftOf(normalized)
  BY <1>1, <1>2, <1>3, <1>4, Zenon DEF LeftOf
<1> QED BY <1>2, <1>3, <1>5

\* The two parts of the invariance.
LEMMA CsvInitially == CsvInit => CsvInv
<1> SUFFICES ASSUME CsvInit PROVE CsvInv
  OBVIOUS
<1>1. PICK products \in Catalogs, skus \in Workspaces :
        \E text \in {exportProductsCsv(products), Spreadsheet(products)} :
          CsvStart(products, Normalized(text), skus)
  BY Zenon DEF CsvInit
<1>2. PICK text \in {exportProductsCsv(products), Spreadsheet(products)} :
        CsvStart(products, Normalized(text), skus)
  BY <1>1
<1>3. /\ exported = products /\ normalized = Normalized(text) /\ cut = FALSE /\ csvPc = "parsing"
      /\ index = 1 /\ quoted = FALSE /\ cell = <<>> /\ row = <<>> /\ records = <<>>
  BY <1>2, Zenon DEF CsvStart
<1>4. exported \in Seq(Stored)
  BY <1>3, CsvAssumption
<1>5. PICK table, N, places, tail :
        Shape(table, N, exported, tail) /\ Written(normalized, table, N, places, tail)
  BY <1>2, <1>3, <1>4, ExportIsWritten, SpreadsheetIsWritten, Zenon
<1>6. tail \in BOOLEAN /\ File(normalized, table, N, places, tail)
  BY <1>4, <1>5, Zenon DEF File, Shape
<1>7. LeftOf(normalized) /\ index \in Nat \ {0} /\ quoted \in BOOLEAN
  <2>1. PICK S : normalized \in Seq(S)
    BY <1>5 DEF Written
  <2> QED BY <1>3, <2>1, WholeIsLeft, Zenon
<1>8. Inside(table, N, places)
  <2>1. /\ table \in Seq(Rows) /\ N = Len(table) /\ N \in Nat \ {0} /\ places[1][1].start = 1
    BY <1>5, Zenon DEF Shape, Written
  <2>2. 1 \in 1 .. N
    BY <2>1
  <2>3. 1 \in 1 .. Len(table[1])
    <3>1. Len(table[1]) \in Nat \ {0}
      BY <1>4, <1>5, <2>2, RowSizes, Zenon
    <3> QED BY <3>1
  <2>4. PICK r, c, k : r = 1 /\ c = 1 /\ k = 0
    OBVIOUS
  <2>5. r \in 1 .. N /\ c \in 1 .. Len(table[r])
    BY <2>2, <2>3, <2>4, Zenon
  <2>6. /\ k \in 0 .. Len(table[r][c]) /\ CellAt(normalized, table[r][c], places[r][c])
        /\ SubSeq(table[r][c], 1, k) = <<>>
    BY <1>6, <2>4, <2>5, AtStart, ZenonT(40)
  <2>7. In(table, r, c, k)
    <3>1. SubSeq(table, 1, r - 1) = <<>> /\ SubSeq(table[r], 1, c - 1) = <<>>
      BY <2>4, SubSeqEmpty
    <3> QED BY <1>3, <2>6, <3>1, Zenon DEF In
  <2>8. InCell(table[r][c], places[r][c], k)
    <3>1. ~quoted /\ index = places[r][c].start
      BY <1>3, <2>1, <2>4
    <3>2. CASE AsItIs(table[r][c], places[r][c])
      BY <2>4, <3>1, <3>2 DEF AsItIs, InCell
    <3>3. CASE InQuotes(normalized, table[r][c], places[r][c])
      BY <2>4, <3>1, <3>3 DEF InQuotes, InCell
    <3> QED BY <2>6, <3>2, <3>3 DEF CellAt
  <2> QED BY <2>5, <2>6, <2>7, <2>8, Zenon DEF Inside
<1>10. CsvPart(normalized, table, N, places, tail)
  <2>1. Parsing(normalized, table, N, places, tail)
    BY <1>7, <1>8, Zenon DEF Parsing
  <2>2. csvPc # "parsed"
    BY <1>3
  <2> QED BY <1>6, <2>1, <2>2, Zenon DEF CsvPart
<1>11. csvPc \in {"parsing", "parsed", "refused", "previewed"} /\ ProductsComeBack
  <2>1. csvPc \in {"parsing", "parsed", "refused", "previewed"} /\ csvPc # "previewed" /\ csvPc # "refused"
    BY <1>3
  <2> QED BY <2>1, Zenon DEF ProductsComeBack
<1> QED BY <1>10, <1>11, Zenon DEF CsvInv

LEMMA CsvStep == CsvInv /\ [CsvNext]_csvVars => CsvInv'
<1> SUFFICES ASSUME CsvInv, [CsvNext]_csvVars PROVE CsvInv'
  OBVIOUS
<1>1. /\ csvPc \in {"parsing", "parsed", "refused", "previewed"} /\ ProductsComeBack
      /\ \E text, table, N, places, tail : CsvPart(text, table, N, places, tail)
  BY Zenon DEF CsvInv
<1>2. PICK text, table, N, places, tail : CsvPart(text, table, N, places, tail)
  BY <1>1
<1>3. /\ tail \in BOOLEAN /\ File(text, table, N, places, tail)
      /\ csvPc = "parsing" => Parsing(text, table, N, places, tail)
      /\ csvPc = "parsed" => Read(table, N, tail)
  BY <1>2, Zenon DEF CsvPart
<1>4. ASSUME exported' = exported, csvPc' \in {"parsing", "parsed", "refused", "previewed"}, ProductsComeBack',
             csvPc' = "parsing" => Parsing(text, table, N, places, tail)',
             csvPc' = "parsed" => Read(table, N, tail)'
      PROVE  CsvInv'
  <2>1. File(text, table, N, places, tail)'
    BY <1>3, <1>4, Zenon DEF File
  <2>2. CsvPart(text, table, N, places, tail)'
    BY <1>3, <1>4, <2>1, Zenon DEF CsvPart
  <2> QED BY <1>4, <2>2, Zenon DEF CsvInv
<1>5. ASSUME Parses \/ CutShort, csvPc = "parsing" => Parsing(text, table, N, places, tail)'
      PROVE  CsvInv'
  <2>1. csvPc = "parsing" /\ csvPc' = csvPc /\ exported' = exported
    BY <1>5, Zenon DEF Parses, CutShort
  <2>2. csvPc' \in {"parsing", "parsed", "refused", "previewed"} /\ csvPc' = "parsing"
        /\ csvPc' # "previewed" /\ csvPc' # "refused" /\ csvPc' # "parsed"
    BY <2>1
  <2>3. ProductsComeBack'
    BY <2>2, Zenon DEF ProductsComeBack
  <2> QED BY <1>4, <1>5, <2>1, <2>2, <2>3, Zenon
<1>6. CASE EscapedQuote
  <2>1. csvPc = "parsing" => Parsing(text, table, N, places, tail)'
    BY <1>3, <1>6, EscapedQuoteReads, Zenon
  <2> QED BY <1>5, <1>6, <2>1, Zenon DEF EscapedQuote
<1>7. CASE ClosingQuote
  <2>1. csvPc = "parsing" => Parsing(text, table, N, places, tail)'
    BY <1>3, <1>7, ClosingQuoteReads, Zenon
  <2> QED BY <1>5, <1>7, <2>1, Zenon DEF ClosingQuote
<1>8. CASE OpeningQuote
  <2>1. csvPc = "parsing" => Parsing(text, table, N, places, tail)'
    BY <1>3, <1>8, OpeningQuoteReads, Zenon
  <2> QED BY <1>5, <1>8, <2>1, Zenon DEF OpeningQuote
<1>9. CASE EndOfCell
  <2>1. csvPc = "parsing" => Parsing(text, table, N, places, tail)'
    BY <1>3, <1>9, EndOfCellReads, Zenon
  <2> QED BY <1>5, <1>9, <2>1, Zenon DEF EndOfCell
<1>10. CASE EndOfRow
  <2>1. csvPc = "parsing" => Parsing(text, table, N, places, tail)'
    BY <1>3, <1>10, EndOfRowReads, Zenon
  <2> QED BY <1>5, <1>10, <2>1, Zenon DEF EndOfRow
<1>11. CASE Character
  <2>1. csvPc = "parsing" => Parsing(text, table, N, places, tail)'
    BY <1>3, <1>11, CharacterReads, Zenon
  <2> QED BY <1>5, <1>11, <2>1, Zenon DEF Character
<1>12. CASE CutShort
  <2>1. csvPc = "parsing" => Parsing(text, table, N, places, tail)'
    BY <1>3, <1>12, CutShortReads, Zenon
  <2> QED BY <1>5, <1>12, <2>1, Zenon
<1>13. CASE EndOfFile
  <2>1. /\ csvPc = "parsing" /\ csvPc' = (IF quoted THEN "refused" ELSE "parsed")
        /\ exported' = exported /\ cut' = cut
    BY <1>13, Zenon DEF EndOfFile
  <2>2. csvPc' \in {"parsing", "parsed", "refused", "previewed"} /\ csvPc' # "previewed" /\ csvPc' # "parsing"
    BY <2>1
  <2>3. Read(table, N, tail)' /\ (csvPc' = "refused" => cut)
    BY <1>3, <1>13, <2>1, EndOfFileReads, Zenon
  <2>4. ProductsComeBack'
    BY <2>1, <2>2, <2>3, Zenon DEF ProductsComeBack
  <2> QED BY <1>4, <2>1, <2>2, <2>3, <2>4, Zenon
<1>14. CASE Refuse
  <2>1. csvPc = "parsed" /\ csvPc' = "refused" /\ exported' = exported /\ cut' = cut
    BY <1>14, Zenon DEF Refuse
  <2>2. csvPc' \in {"parsing", "parsed", "refused", "previewed"} /\ csvPc' # "previewed"
        /\ csvPc' # "parsing" /\ csvPc' # "parsed"
    BY <2>1
  <2>3. cut \/ Len(exported) > MaxRows
    BY <1>3, <1>14, <2>1, RefuseIsRight, Zenon
  <2>4. ProductsComeBack'
    BY <2>1, <2>2, <2>3, Zenon DEF ProductsComeBack
  <2> QED BY <1>4, <2>1, <2>2, <2>4, Zenon
<1>15. CASE Preview
  <2>1. csvPc = "parsed" /\ csvPc' = "previewed" /\ exported' = exported
    BY <1>15, Zenon DEF Preview
  <2>2. csvPc' \in {"parsing", "parsed", "refused", "previewed"}
        /\ csvPc' # "parsing" /\ csvPc' # "parsed"
    BY <2>1
  <2>3. ProductsComeBack'
    BY <1>3, <1>15, <2>1, PreviewIsRight, Zenon
  <2> QED BY <1>4, <2>1, <2>2, <2>3, Zenon
<1>16. CASE UNCHANGED csvVars
  <2>1. /\ exported' = exported /\ existing' = existing /\ normalized' = normalized /\ cut' = cut
        /\ csvPc' = csvPc /\ index' = index /\ quoted' = quoted /\ cell' = cell /\ row' = row
        /\ records' = records /\ validRows' = validRows /\ errors' = errors
    BY <1>16 DEF csvVars, loop
  <2>2. ProductsComeBack'
    <3>1. Missing' = Missing /\ Expected' = Expected
      BY <2>1, Zenon DEF Missing, Expected
    <3> QED BY <1>1, <2>1, <3>1, Zenon DEF ProductsComeBack
  <2>3. Parsing(text, table, N, places, tail) => Parsing(text, table, N, places, tail)'
    <3>1. LeftOf(text) => LeftOf(text)'
      BY <2>1, Zenon DEF LeftOf
    <3>2. AllRead(text, table, tail) => AllRead(text, table, tail)'
      BY <2>1, Zenon DEF AllRead
    <3>3. Inside(table, N, places) => Inside(table, N, places)'
      BY <2>1, ZenonT(60) DEF Inside, In, InCell
    <3> QED BY <2>1, <3>1, <3>2, <3>3, Zenon DEF Parsing
  <2>4. Read(table, N, tail) => Read(table, N, tail)'
    BY <2>1, Zenon DEF Read
  <2> QED BY <1>1, <1>3, <1>4, <2>1, <2>2, <2>3, <2>4, Zenon
<1> QED BY <1>6, <1>7, <1>8, <1>9, <1>10, <1>11, <1>12, <1>13, <1>14, <1>15, <1>16, Zenon DEF CsvNext

\* What a file brings into a workspace are the exported products that it does not
\* have, for any catalogs and workspaces, names and descriptions of any length, and any
\* limit on rows; of a file that was cut short, all rows but the last are right; and no
\* other file within the limit is refused (csvCell and exportProductsCsv against
\* parseCsv, parseProductCsv and preview).
THEOREM CsvImport == CsvSpec => []ProductsComeBack
<1>1. CsvInv => ProductsComeBack
  BY DEF CsvInv
<1> QED BY CsvInitially, CsvStep, <1>1, PTL DEF CsvSpec
=============================================================================
