----------------------------- MODULE Deliveries -----------------------------
(***************************************************************************)
(* Storefront deliveries of one tenant: webhooks that the storefront may     *)
(* send again and again, manual retries, and the pg-boss worker with its     *)
(* retry queue and its recovery job.  Every handler is one transaction; a     *)
(* job is acknowledged, and a retry enqueued, after that transaction.        *)
(*                                                                         *)
(* A handler writes its delivery only while it holds the advisory lock of    *)
(* the delivery id (webhook) or the row lock (retries); what it has written  *)
(* and not committed is in tx[w].                                           *)
(***************************************************************************)
EXTENDS Integers, FiniteSets

CONSTANTS
  DeliveryIds, \* external delivery ids
  Workers,     \* webhook and retry handlers that can run at once
  Jobs,        \* jobs of the retry queue that can exist at once
  None,
  MaxAttempts, \* MAX_AUTOMATIC_DELIVERY_ATTEMPTS
  RetryLimit,  \* retryLimit of the retry queue
  MaxManual,   \* bound: manual retries
  MaxWebhooks, \* bound: webhook requests
  MaxCrashes   \* bound: lost processes, connections and queue calls

ASSUME DeliveryAssumption ==
  /\ None \notin DeliveryIds \cup Workers \cup Jobs
  /\ MaxAttempts \in Nat \ {0} /\ RetryLimit \in Nat
  /\ MaxManual \in Nat /\ MaxWebhooks \in Nat /\ MaxCrashes \in Nat

VARIABLES
  delivery,  \* integration_deliveries: status and attempts
  orders,    \* orders committed for each delivery
  tries,     \* history: attempts whose transaction has committed
  reply,     \* response stored under the delivery id by executeIdempotent
  keyLock,   \* advisory lock of the delivery id
  rowLock,   \* row lock of the delivery
  tx,        \* what each handler is doing
  job,       \* jobs of the retry queue
  recent,    \* deliveries whose singleton slot of 60 seconds is taken
  recovery,  \* the recovery job
  used       \* how much of each bound is used up

rows  == <<delivery, orders, tries, reply>>
locks == <<keyLock, rowLock>>
queue == <<job, recent>>
vars  == <<rows, locks, tx, queue, recovery, used>>

NoDelivery == [status |-> "NONE", attempts |-> 0]
Idle == [pc       |-> "idle", \* "key", "row", "read", "work", "commit", "enqueue", "ack"
         kind     |-> "none", \* "webhook", "manual", "job"
         d        |-> None,
         job      |-> None,
         attempts |-> 0,
         status   |-> "NONE"]
NoJob == [state |-> "none", d |-> None, runs |-> 0] \* "created", "retry", "active"
NoScan == [on |-> FALSE, todo |-> {}, next |-> None]

Init ==
  /\ delivery = [d \in DeliveryIds |-> NoDelivery]
  /\ orders = [d \in DeliveryIds |-> 0]
  /\ tries = [d \in DeliveryIds |-> 0]
  /\ reply = [d \in DeliveryIds |-> "NONE"]
  /\ keyLock = [d \in DeliveryIds |-> None]
  /\ rowLock = [d \in DeliveryIds |-> None]
  /\ tx = [w \in Workers |-> Idle]
  /\ job = [j \in Jobs |-> NoJob]
  /\ recent = {}
  /\ recovery = NoScan
  /\ used = [webhook |-> 0, manual |-> 0, crash |-> 0]

Use(what, bound) == used[what] < bound /\ used' = [used EXCEPT ![what] = @ + 1]

-----------------------------------------------------------------------------
(* Where a handler begins.                                                  *)

Begin(w, fields) == tx[w].pc = "idle" /\ tx' = [tx EXCEPT ![w] = fields]

ReceiveWebhook(w, d) ==
  /\ Begin(w, [Idle EXCEPT !.pc = "key", !.kind = "webhook", !.d = d])
  /\ Use("webhook", MaxWebhooks)
  /\ UNCHANGED <<rows, locks, queue, recovery>>

\* POST /integrations/deliveries/:id/retry with a new idempotency key.
RequestRetry(w, d) ==
  /\ delivery[d].status # "NONE"
  /\ Begin(w, [Idle EXCEPT !.pc = "row", !.kind = "manual", !.d = d])
  /\ Use("manual", MaxManual)
  /\ UNCHANGED <<rows, locks, queue, recovery>>

FetchJob(w, j) ==
  /\ job[j].state \in {"created", "retry"}
  /\ Begin(w, [Idle EXCEPT !.pc = "row", !.kind = "job", !.d = job[j].d, !.job = j])
  /\ job' = [job EXCEPT ![j].state = "active", ![j].runs = @ + 1]
  /\ UNCHANGED <<rows, locks, recent, recovery, used>>

-----------------------------------------------------------------------------
(* The transaction.                                                         *)

Release(w) ==
  /\ keyLock' = [d \in DeliveryIds |-> IF keyLock[d] = w THEN None ELSE keyLock[d]]
  /\ rowLock' = [d \in DeliveryIds |-> IF rowLock[d] = w THEN None ELSE rowLock[d]]

\* What a handler still does once its transaction has ended with a status.
After(w, status) ==
  LET t == tx[w] IN
  CASE t.kind = "webhook" /\ status = "FAILED" -> [t EXCEPT !.pc = "enqueue"]
    [] t.kind = "job" -> [t EXCEPT !.pc = "ack", !.status = status]
    [] OTHER -> Idle

KeyFree(d) == keyLock[d] = None

\* executeIdempotent finds the stored response: the delivery is a duplicate,
\* and a stored FAILED makes the handler enqueue a retry once more.
ReplayWebhook(w) ==
  LET d == tx[w].d IN
  /\ tx[w].pc = "key" /\ KeyFree(d) /\ reply[d] # "NONE"
  /\ tx' = [tx EXCEPT ![w] = After(w, reply[d])]
  /\ UNCHANGED <<rows, locks, queue, recovery, used>>

\* The stored response has expired, the delivery row has not.
KnownDelivery(w) ==
  LET d == tx[w].d IN
  /\ tx[w].pc = "key" /\ KeyFree(d) /\ reply[d] = "NONE" /\ delivery[d].status # "NONE"
  /\ reply' = [reply EXCEPT ![d] = delivery[d].status]
  /\ tx' = [tx EXCEPT ![w] = After(w, delivery[d].status)]
  /\ UNCHANGED <<delivery, orders, tries, locks, queue, recovery, used>>

NewDelivery(w) ==
  LET d == tx[w].d IN
  /\ tx[w].pc = "key" /\ KeyFree(d) /\ reply[d] = "NONE" /\ delivery[d].status = "NONE"
  /\ keyLock' = [keyLock EXCEPT ![d] = w]
  /\ tx' = [tx EXCEPT ![w].pc = "work", ![w].attempts = 1]
  /\ UNCHANGED <<rows, rowLock, queue, recovery, used>>

RowUnguarded(d) == TRUE
RowFree(d) == rowLock[d] = None

LockDelivery(w) ==
  /\ tx[w].pc = "row" /\ RowFree(tx[w].d)
  /\ rowLock' = [rowLock EXCEPT ![tx[w].d] = w]
  /\ tx' = [tx EXCEPT ![w].pc = "read"]
  /\ UNCHANGED <<rows, keyLock, queue, recovery, used>>

LimitReached(w, attempts) == tx[w].kind = "job" /\ attempts >= MaxAttempts

\* retryDeliveryTransaction reads the delivery again under its lock and stops
\* when it has succeeded or when a job is at the limit of attempts.
NothingToRetry(w) ==
  LET now == delivery[tx[w].d] IN
  /\ tx[w].pc = "read"
  /\ now.status = "SUCCEEDED" \/ LimitReached(w, now.attempts)
  /\ tx' = [tx EXCEPT ![w] = After(w, now.status)]
  /\ Release(w)
  /\ UNCHANGED <<rows, queue, recovery, used>>

StartAttempt(w) ==
  LET now == delivery[tx[w].d] IN
  /\ tx[w].pc = "read"
  /\ ~(now.status = "SUCCEEDED" \/ LimitReached(w, now.attempts))
  /\ tx' = [tx EXCEPT ![w].pc = "work", ![w].attempts = now.attempts + 1]
  /\ UNCHANGED <<rows, locks, queue, recovery, used>>

\* createStorefrontDraftOrder after SAVEPOINT: an error, SQL errors included,
\* rolls back to the savepoint and leaves a FAILED delivery to commit.
Attempt(w, status) ==
  /\ tx[w].pc = "work"
  /\ tx' = [tx EXCEPT ![w].pc = "commit", ![w].status = status]
  /\ UNCHANGED <<rows, locks, queue, recovery, used>>

OrderRowsWithoutSavepoint(status) == 1
OrderRows(status) == IF status = "SUCCEEDED" THEN 1 ELSE 0

Commit(w) ==
  LET t == tx[w]  d == t.d IN
  /\ t.pc = "commit"
  /\ delivery' = [delivery EXCEPT ![d] = [status |-> t.status, attempts |-> t.attempts]]
  /\ orders' = [orders EXCEPT ![d] = @ + OrderRows(t.status)]
  /\ tries' = [tries EXCEPT ![d] = @ + 1]
  /\ reply' = IF t.kind = "webhook" THEN [reply EXCEPT ![d] = t.status] ELSE reply
  /\ Release(w)
  /\ tx' = [tx EXCEPT ![w] = After(w, t.status)]
  /\ UNCHANGED <<queue, recovery, used>>

-----------------------------------------------------------------------------
(* The retry queue.                                                         *)

Free(j) == job[j].state = "none"

\* boss.send with a singleton key: dropped while the slot of the key is taken.
\* A job beyond the bound Jobs is lost, as a failing queue may lose any.
SendRetry(d) ==
  \/ (d \in recent \/ \A j \in Jobs : ~Free(j)) /\ UNCHANGED queue
  \/ /\ d \notin recent
     /\ \E j \in Jobs :
          /\ Free(j)
          /\ job' = [job EXCEPT ![j] = [state |-> "created", d |-> d, runs |-> 0]]
     /\ recent' = recent \cup {d}

SlotEnds(d) ==
  /\ d \in recent /\ recent' = recent \ {d}
  /\ UNCHANGED <<rows, locks, tx, job, recovery, used>>

EnqueueRetry(w) ==
  /\ tx[w].pc = "enqueue" /\ SendRetry(tx[w].d)
  /\ tx' = [tx EXCEPT ![w] = Idle]
  /\ UNCHANGED <<rows, locks, recovery, used>>

\* A run that did not succeed is retried until the retry limit, after which
\* the job goes to the dead-letter queue.
Outcome(j, ok) ==
  IF ok \/ job[j].runs > RetryLimit THEN NoJob ELSE [job[j] EXCEPT !.state = "retry"]

AckJob(w) ==
  LET j == tx[w].job IN
  /\ tx[w].pc = "ack"
  /\ job' = [job EXCEPT ![j] = Outcome(j, tx[w].status = "SUCCEEDED")]
  /\ tx' = [tx EXCEPT ![w] = Idle]
  /\ UNCHANGED <<rows, locks, recent, recovery, used>>

\* A job whose worker is gone expires and counts as a failed run.
ExpireJob(j) ==
  /\ job[j].state = "active" /\ \A w \in Workers : tx[w].job # j
  /\ job' = [job EXCEPT ![j] = Outcome(j, FALSE)]
  /\ UNCHANGED <<rows, locks, tx, recent, recovery, used>>

Pending(d) == \E j \in Jobs : job[j].d = d

NeedsRecoveryOffByOne(d) == delivery[d].status = "FAILED" /\ delivery[d].attempts < MaxAttempts - 1
NeedsRecovery(d) == delivery[d].status = "FAILED" /\ delivery[d].attempts < MaxAttempts

\* recoverFailedDeliveries: started every minute and when the process starts,
\* never twice at once.
StartRecovery ==
  /\ ~recovery.on
  /\ recovery' = [NoScan EXCEPT !.on = TRUE, !.todo = {d \in DeliveryIds : NeedsRecovery(d)}]
  /\ UNCHANGED <<rows, locks, tx, queue, used>>

\* hasPendingIntegrationRetry, then enqueueIntegrationRetry.
CheckPending(d) ==
  /\ recovery.next = None /\ d \in recovery.todo
  /\ recovery' = [recovery EXCEPT !.todo = @ \ {d}, !.next = IF Pending(d) THEN None ELSE d]
  /\ UNCHANGED <<rows, locks, tx, queue, used>>

RecoverDelivery ==
  /\ recovery.next # None /\ SendRetry(recovery.next)
  /\ recovery' = [recovery EXCEPT !.next = None]
  /\ UNCHANGED <<rows, locks, tx, used>>

EndRecovery ==
  /\ recovery.on /\ recovery.todo = {} /\ recovery.next = None
  /\ recovery' = NoScan
  /\ UNCHANGED <<rows, locks, tx, queue, used>>

-----------------------------------------------------------------------------
(* Failures.                                                                *)

\* The process or its connection is lost: before the commit the transaction is
\* rolled back, after it the job is not acknowledged or the retry not enqueued.
Crash(w) ==
  /\ tx[w].pc # "idle" /\ Use("crash", MaxCrashes)
  /\ Release(w)
  /\ tx' = [tx EXCEPT ![w] = Idle]
  /\ UNCHANGED <<rows, queue, recovery>>

CrashRecovery ==
  /\ recovery.on /\ Use("crash", MaxCrashes)
  /\ recovery' = NoScan
  /\ UNCHANGED <<rows, locks, tx, queue>>

\* The stored response is purged after 24 hours.
ExpireReply(d) ==
  /\ reply[d] # "NONE" /\ keyLock[d] = None
  /\ reply' = [reply EXCEPT ![d] = "NONE"]
  /\ UNCHANGED <<delivery, orders, tries, locks, tx, queue, recovery, used>>

-----------------------------------------------------------------------------
Transaction(w) ==
  \/ ReplayWebhook(w) \/ KnownDelivery(w) \/ NewDelivery(w)
  \/ LockDelivery(w) \/ NothingToRetry(w) \/ StartAttempt(w)
  \/ \E status \in {"SUCCEEDED", "FAILED"} : Attempt(w, status)
  \/ Commit(w) \/ EnqueueRetry(w) \/ AckJob(w)

Recovery ==
  \/ StartRecovery \/ RecoverDelivery \/ EndRecovery
  \/ \E d \in DeliveryIds : CheckPending(d)

Next ==
  \/ \E w \in Workers :
       \/ \E d \in DeliveryIds : ReceiveWebhook(w, d) \/ RequestRetry(w, d)
       \/ \E j \in Jobs : FetchJob(w, j)
       \/ Transaction(w) \/ Crash(w)
  \/ Recovery \/ CrashRecovery
  \/ \E d \in DeliveryIds : SlotEnds(d) \/ ExpireReply(d)
  \/ \E j \in Jobs : ExpireJob(j)

Spec == Init /\ [][Next]_vars

\* Handlers and the recovery job go on, jobs are fetched and expired, singleton
\* slots end.  Nothing obliges the storefront or a user to try again.
Fairness ==
  /\ \A w \in Workers : SF_vars(Transaction(w))
  /\ \A j \in Jobs : SF_vars(ExpireJob(j) \/ \E w \in Workers : FetchJob(w, j))
  /\ \A d \in DeliveryIds : WF_vars(SlotEnds(d))
  /\ SF_vars(Recovery)

FairSpec == Spec /\ Fairness

-----------------------------------------------------------------------------
(* Properties.                                                              *)

TypeOK ==
  /\ delivery \in [DeliveryIds ->
       [status : {"NONE", "SUCCEEDED", "FAILED"}, attempts : Nat]]
  /\ orders \in [DeliveryIds -> Nat] /\ tries \in [DeliveryIds -> Nat]
  /\ reply \in [DeliveryIds -> {"NONE", "SUCCEEDED", "FAILED"}]
  /\ keyLock \in [DeliveryIds -> Workers \cup {None}]
  /\ rowLock \in [DeliveryIds -> Workers \cup {None}]
  /\ tx \in [Workers ->
       [pc : {"idle", "key", "row", "read", "work", "commit", "enqueue", "ack"},
        kind : {"none", "webhook", "manual", "job"}, d : DeliveryIds \cup {None},
        job : Jobs \cup {None}, attempts : Nat, status : {"NONE", "SUCCEEDED", "FAILED"}]]
  /\ job \in [Jobs -> [state : {"none", "created", "retry", "active"},
                       d : DeliveryIds \cup {None}, runs : 0 .. RetryLimit + 1]]
  /\ recent \subseteq DeliveryIds
  /\ recovery \in [on : BOOLEAN, todo : SUBSET DeliveryIds, next : DeliveryIds \cup {None}]

\* A delivery yields exactly one order once it has succeeded and none before,
\* through duplicate webhooks, manual retries that race the worker, jobs that
\* run twice, crashes, and errors after part of the order was written.
OneOrder ==
  \A d \in DeliveryIds : orders[d] = IF delivery[d].status = "SUCCEEDED" THEN 1 ELSE 0

\* The attempt counter is durable: every attempt that reached a result is
\* counted, failed ones too, and none is counted twice.
EveryAttemptCounted == \A d \in DeliveryIds : delivery[d].attempts = tries[d]

\* Jobs make no attempt beyond the limit, however many of them are queued for
\* one delivery and however manual retries fall between their steps.
AutomaticLimit ==
  [][\A w \in Workers :
       tx[w].kind = "job" /\ tx[w].pc = "commit" /\ Commit(w) =>
         delivery'[tx[w].d].attempts <= MaxAttempts]_vars

\* "FAILED is already durable; scheduled recovery will enqueue it": a failed
\* delivery is retried until it succeeds or has used its automatic attempts,
\* even if the enqueue after its commit, or any job for it, is lost.
FailedIsRetried ==
  \A d \in DeliveryIds :
    delivery[d].status = "FAILED" ~>
      delivery[d].status = "SUCCEEDED" \/ delivery[d].attempts >= MaxAttempts
=============================================================================
