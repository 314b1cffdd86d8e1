--------------------------- MODULE BillingProofs ---------------------------
(***************************************************************************)
(* Proofs about the subscription row, for any number of checkouts, handlers, *)
(* subscriptions and versions.                                              *)
(*                                                                         *)
(* NoEventLost is not inductive: a later upsert could bring back a customer  *)
(* whose events have been dropped.  FreshCustomer says why it cannot: until  *)
(* a checkout has committed its customer, nobody else knows that customer,   *)
(* so Stripe has no session and no event of it.                             *)
(***************************************************************************)
EXTENDS Billing, TLAPS

\* A handler beyond "idle" has an event that Stripe published and the code knows.
HandlerOK(h) ==
  handler[h].pc # "idle" =>
    /\ handler[h].event \in Events
    /\ Published(handler[h].event) /\ Synced(handler[h].event)

\* Whoever names a customer names one that Stripe has created.
IssuedFirst ==
  /\ row.customer \in issued \cup {None}
  /\ \A c \in Checkouts :
       checkout[c].pc \in {"update", "upsert", "session"} => checkout[c].customer \in issued
  /\ \A s \in Subscriptions : stripe[s].customer \in issued \cup {None}

Typed == TypeOK /\ IssuedFirst /\ \A h \in Handlers : HandlerOK(h)

LEMMA EventFields ==
  ASSUME NEW e \in Events
  PROVE  e[1] \in Subscriptions /\ e[2] \in 1 .. MaxVersion /\ e = <<e[1], e[2]>>
BY DEF Events

\* A new version is an event, and none that was published before.
LEMMA NewVersion ==
  ASSUME Typed, NEW s \in Subscriptions, stripe[s].version + 1 <= MaxVersion
  PROVE  /\ <<s, stripe[s].version + 1>> \in Events
         /\ \A e \in Events : Published(e) => e # <<s, stripe[s].version + 1>>
BY BillingAssumption, EventFields DEF Typed, TypeOK, Events, Published

\* What Stripe publishes leaves the published events as they are.
LEMMA PublishKeeps ==
  ASSUME Typed, NEW s \in Subscriptions, NEW k \in Customers \cup {None},
         NEW price \in Prices, NEW status \in Statuses, Publish(s, k, price, status)
  PROVE  /\ stripe' \in [Subscriptions -> [customer : Customers \cup {None},
                                           version : 0 .. MaxVersion]]
         /\ payload' \in [Events -> [price : Prices, status : Statuses \cup {None}]]
         /\ \A e \in Events : Published(e) => Published(e)' /\ payload'[e] = payload[e]
<1> DEFINE v == stripe[s].version + 1
<1>1. v \in 0 .. MaxVersion /\ v > stripe[s].version /\ v <= MaxVersion
  BY BillingAssumption DEF Publish, Typed, TypeOK
<1>2. <<s, v>> \in Events /\ \A e \in Events : Published(e) => e # <<s, v>>
  BY <1>1, NewVersion
<1>3. stripe' = [stripe EXCEPT ![s] = [customer |-> k, version |-> v]]
  BY DEF Publish
<1>4. payload' = [payload EXCEPT ![<<s, v>>] = [price |-> price, status |-> status]]
  BY DEF Publish
<1>5. stripe' \in [Subscriptions -> [customer : Customers \cup {None},
                                     version : 0 .. MaxVersion]]
  BY <1>1, <1>3 DEF Typed, TypeOK
<1>6. payload' \in [Events -> [price : Prices, status : Statuses \cup {None}]]
  BY <1>2, <1>4 DEF Typed, TypeOK
<1>7. ASSUME NEW e \in Events, Published(e)
      PROVE  Published(e)' /\ payload'[e] = payload[e]
  <2>1. e[1] \in Subscriptions /\ e[2] \in 1 .. MaxVersion
    BY EventFields
  <2>2. stripe'[e[1]].version >= stripe[e[1]].version
    BY <1>1, <1>3, <2>1 DEF Typed, TypeOK
  <2>3. stripe'[e[1]].version \in Nat /\ stripe[e[1]].version \in Nat
    BY <1>5, <2>1 DEF Typed, TypeOK
  <2>4. Published(e)'
    BY <1>7, <2>1, <2>2, <2>3 DEF Published
  <2>5. payload'[e] = payload[e]
    BY <1>2, <1>4, <1>7 DEF Typed, TypeOK
  <2> QED
    BY <2>4, <2>5
<1> QED
  BY <1>5, <1>6, <1>7

LEMMA InitTyped == Init => Typed
BY BillingAssumption DEF Init, Typed, TypeOK, HandlerOK, RowType, NoRow, NoPayload,
   IdleCheckout, IdleHandler, Plans, IssuedFirst

\* The steps of a checkout.
LEMMA CheckoutTyped ==
  ASSUME Typed, NEW c \in Checkouts, Checkout(c)
  PROVE  Typed'
<1> USE DEF Typed, TypeOK, IssuedFirst, database, provider, history
<1>0. ASSUME UNCHANGED <<handler, stripe, payload>>
      PROVE  \A h \in Handlers : HandlerOK(h)'
  BY <1>0 DEF HandlerOK, Published, Synced
<1>1. ASSUME NEW plan \in Plans, StartCheckout(c, plan) PROVE Typed'
  BY <1>0, <1>1 DEF StartCheckout, RowType
<1>2. ASSUME NEW k \in Customers, CreateCustomer(c, k) PROVE Typed'
  <2>1. checkout' = [checkout EXCEPT ![c] = [@ EXCEPT !.pc = "upsert", !.customer = k]]
        /\ issued' = issued \cup {k}
        /\ UNCHANGED <<database, handler, sessions, stripe, payload, history>>
    BY <1>2 DEF CreateCustomer
  <2>2. IssuedFirst'
    BY <2>1
  <2>3. checkout[c] \in [pc : {"idle", "customer", "update", "upsert", "session", "done"},
                         plan : Plans, customer : Customers \cup {None}]
    OBVIOUS
  <2>4. [checkout[c] EXCEPT !.pc = "upsert", !.customer = k] \in
          [pc : {"idle", "customer", "update", "upsert", "session", "done"},
           plan : Plans, customer : Customers \cup {None}]
    BY <2>3
  <2> QED
    BY <1>0, <2>1, <2>2, <2>4
<1>3. ASSUME NEW k \in issued \cup {None}, Write(c, k), checkout[c].customer \in issued
      PROVE  Typed'
  <2>1. row' = [customer |-> k, plan |-> checkout[c].plan, status |-> "INCOMPLETE",
                sub |-> row.sub]
    BY <1>3 DEF Write, Requested, RowType
  <2>2. row' \in RowType
    BY <1>3, <2>1 DEF RowType
  <2>3. checkout' = [checkout EXCEPT ![c].pc = "session"]
        /\ UNCHANGED <<handler, claimed, audit, provider, history>>
    BY <1>3 DEF Write
  <2>4. IssuedFirst'
    BY <1>3, <2>1, <2>3
  <2> QED
    BY <1>0, <2>2, <2>3, <2>4
<1>4. CASE UpdateRow(c)
  BY <1>3, <1>4 DEF UpdateRow
<1>5. CASE UpsertRow(c)
  BY <1>3, <1>5 DEF UpsertRow
<1>6. CASE OpenSession(c)
  BY <1>0, <1>6 DEF OpenSession, MayOpenSession
<1>7. CASE AbandonCheckout(c)
  BY <1>0, <1>7 DEF AbandonCheckout
<1> QED
  BY <1>1, <1>2, <1>4, <1>5, <1>6, <1>7 DEF Checkout

\* The steps of Stripe.
LEMMA StripeTyped ==
  ASSUME Typed, NEW s \in Subscriptions, Stripe(s)
  PROVE  Typed'
<1> USE DEF Typed, TypeOK, IssuedFirst, database, provider, history
<1>1. ASSUME NEW k \in issued \cup {None}, NEW price \in Prices, NEW status \in Statuses,
             Publish(s, k, price, status), sessions' \subseteq sessions
      PROVE  Typed'
  <2>1. stripe' \in [Subscriptions -> [customer : Customers \cup {None},
                                       version : 0 .. MaxVersion]]
        /\ payload' \in [Events -> [price : Prices, status : Statuses \cup {None}]]
        /\ \A e \in Events : Published(e) => Published(e)' /\ payload'[e] = payload[e]
    BY <1>1, PublishKeeps
  <2>2. UNCHANGED <<database, checkout, handler, issued, history>>
    BY <1>1 DEF Publish
  <2>3. \A h \in Handlers : HandlerOK(h)'
    BY <2>1, <2>2 DEF HandlerOK, Synced
  <2>4. IssuedFirst'
    BY <1>1, <2>2 DEF Publish
  <2> QED
    BY <1>1, <2>1, <2>2, <2>3, <2>4
<1>2. PICK price \in Prices, status \in Statuses :
        \/ \E k \in Customers : Subscribe(s, k, price, status)
        \/ ChangeSubscription(s, price, status)
  BY DEF Stripe
<1>3. ASSUME NEW k \in Customers, Subscribe(s, k, price, status) PROVE Typed'
  BY <1>1, <1>3 DEF Subscribe
<1>4. CASE ChangeSubscription(s, price, status)
  BY <1>1, <1>4 DEF ChangeSubscription
<1> QED
  BY <1>2, <1>3, <1>4

\* The steps of a webhook handler.
LEMMA WebhookTyped ==
  ASSUME Typed, NEW h \in Handlers, Webhook(h)
  PROVE  Typed'
<1> USE DEF Typed, TypeOK, IssuedFirst, HandlerOK, Published, Synced, database, provider,
        history
<1>1. ASSUME NEW e \in Events, ReceiveEvent(h, e) PROVE Typed'
  BY <1>1 DEF ReceiveEvent
<1>2. CASE Claim(h)
  BY <1>2 DEF Claim
<1>3. CASE KnownEvent(h)
  BY <1>3 DEF KnownEvent, EndWebhook, IdleHandler
<1>4. CASE CheckCustomer(h)
  BY <1>4 DEF CheckCustomer
<1>5. CASE Apply(h)
  <2> DEFINE e == handler[h].event
  <2>1. e \in Events /\ payload[e].price \in Plans /\ e[1] \in Subscriptions
        /\ e[2] \in 1 .. MaxVersion
    BY <1>5, EventFields DEF Apply
  <2>2. row' \in RowType /\ row'.customer = row.customer
    BY <1>5, <2>1 DEF Apply, Applied, RowType
  <2>3. audit' \in [Events -> Nat] /\ claimed' \subseteq Events
    BY <1>5, <2>1 DEF Apply
  <2>4. newest' \in [Subscriptions -> 0 .. MaxVersion] /\ overtaken' \subseteq Subscriptions
    BY <1>5, <2>1 DEF Apply
  <2>5. handler' = [handler EXCEPT ![h] = IdleHandler] /\ UNCHANGED <<checkout, provider>>
    BY <1>5 DEF Apply, EndWebhook
  <2> QED
    BY <2>2, <2>3, <2>4, <2>5 DEF IdleHandler
<1>6. CASE Drop(h)
  BY <1>6 DEF Drop, EndWebhook, IdleHandler
<1>7. CASE Crash(h)
  BY <1>7 DEF Crash, EndWebhook, IdleHandler
<1> QED
  BY <1>1, <1>2, <1>3, <1>4, <1>5, <1>6, <1>7 DEF Webhook

LEMMA StepTyped == Typed /\ [Next]_vars => Typed'
<1> SUFFICES ASSUME Typed, [Next]_vars PROVE Typed'
  OBVIOUS
<1>1. CASE UNCHANGED vars
  BY <1>1 DEF vars, database, provider, history, Typed, TypeOK, IssuedFirst, HandlerOK,
     Published, Synced
<1> QED
  BY <1>1, CheckoutTyped, StripeTyped, WebhookTyped DEF Next

\* Type correctness: in particular the row never holds a plan of a price the
\* code does not know.
THEOREM TypeCorrect == Spec => []TypeOK
<1>1. Typed => TypeOK
  BY DEF Typed
<1> QED
  BY <1>1, InitTyped, StepTyped, PTL DEF Spec

-----------------------------------------------------------------------------
(* Claims: what is applied is claimed, and a claim under way is of one handler. *)

Holding(h) == handler[h].pc \in {"check", "apply", "drop"}

Claims ==
  /\ \A h \in Handlers : Holding(h) =>
       /\ handler[h].event \notin claimed
       /\ \A g \in Handlers \ {h} : Holding(g) => handler[g].event # handler[h].event
  /\ \A e \in Events : audit[e] <= 1 /\ (audit[e] > 0 => e \in claimed)
  /\ \A e \in claimed : Published(e)

LEMMA InitClaims == Init => Claims
BY DEF Init, Claims, Holding, IdleHandler

LEMMA StepClaims == Typed /\ Claims /\ [Next]_vars => Claims'
<1> SUFFICES ASSUME Typed, Claims, [Next]_vars PROVE Claims'
  OBVIOUS
<1> USE DEF database, provider, history
<1>1. ASSUME UNCHANGED <<handler, claimed, audit>>,
             \A e \in Events : Published(e) => Published(e)'
      PROVE  Claims'
  BY <1>1 DEF Claims, Holding, Typed, TypeOK
<1>2. UNCHANGED stripe => \A e \in Events : Published(e) => Published(e)'
  BY DEF Published
<1>3. CASE UNCHANGED vars
  BY <1>1, <1>2, <1>3 DEF vars
<1>4. ASSUME NEW c \in Checkouts, Checkout(c) PROVE Claims'
  BY <1>1, <1>2, <1>4 DEF Checkout, StartCheckout, CreateCustomer, UpdateRow, UpsertRow,
     Write, OpenSession, AbandonCheckout
<1>5. ASSUME NEW s \in Subscriptions, Stripe(s) PROVE Claims'
  <2>1. PICK price \in Prices, status \in Statuses, k \in Customers \cup {None} :
          Publish(s, k, price, status)
    BY <1>5 DEF Stripe, Subscribe, ChangeSubscription, Typed, TypeOK
  <2> QED
    BY <1>1, <2>1, PublishKeeps DEF Publish
<1>6. ASSUME NEW h \in Handlers, Webhook(h) PROVE Claims'
  <2> USE DEF Typed, TypeOK, Claims, Holding, Published
  <2>1. ASSUME NEW e \in Events, ReceiveEvent(h, e) PROVE Claims'
    BY <2>1 DEF ReceiveEvent
  <2>2. CASE Claim(h)
    <3>1. handler' = [handler EXCEPT ![h].pc = "check"]
          /\ UNCHANGED <<claimed, audit, stripe>>
          /\ handler[h].event \notin claimed
      BY <2>2 DEF Claim
    <3>2. \A g \in Handlers \ {h} : Holding(g) => handler[g].event # handler[h].event
      BY <2>2 DEF Claim, ClaimFree
    <3> QED
      BY <3>1, <3>2
  <2>3. CASE KnownEvent(h)
    BY <2>3 DEF KnownEvent, EndWebhook, IdleHandler
  <2>4. CASE CheckCustomer(h)
    BY <2>4 DEF CheckCustomer
  <2>5. ASSUME handler[h].pc \in {"apply", "drop"}, EndWebhook(h),
               claimed' = claimed \cup {handler[h].event}, UNCHANGED stripe,
               \/ UNCHANGED audit
               \/ audit' = [audit EXCEPT ![handler[h].event] = @ + 1]
        PROVE  Claims'
    <3> DEFINE e == handler[h].event
    <3>1. e \in Events /\ Published(e) /\ e \notin claimed /\ audit[e] = 0
      BY <2>5 DEF HandlerOK
    <3>2. \A g \in Handlers : Holding(g)' => g # h /\ Holding(g)
                                           /\ handler'[g].event = handler[g].event
      BY <2>5 DEF EndWebhook, IdleHandler
    <3>3. \A g \in Handlers : Holding(g)' =>
             /\ handler'[g].event \notin claimed'
             /\ \A f \in Handlers \ {g} : Holding(f)' => handler'[f].event # handler'[g].event
      BY <2>5, <3>2
    <3>4. \A d \in Events : audit'[d] <= 1 /\ (audit'[d] > 0 => d \in claimed')
      BY <2>5, <3>1
    <3>5. \A d \in claimed' : Published(d)'
      BY <2>5, <3>1
    <3> QED
      BY <3>3, <3>4, <3>5
  <2>6. CASE Apply(h)
    BY <2>5, <2>6 DEF Apply
  <2>7. CASE Drop(h)
    BY <2>5, <2>7 DEF Drop
  <2>8. CASE Crash(h)
    BY <2>8 DEF Crash, EndWebhook, IdleHandler
  <2> QED
    BY <1>6, <2>1, <2>2, <2>3, <2>4, <2>6, <2>7, <2>8 DEF Webhook
<1> QED
  BY <1>3, <1>4, <1>5, <1>6 DEF Next

\* An event changes the subscription at most once, however its deliveries
\* overlap, repeat and crash.
THEOREM EventAppliedOnce == Spec => []AppliedOnce
<1>1. Claims => AppliedOnce
  BY DEF Claims, AppliedOnce
<1> QED
  BY <1>1, InitTyped, StepTyped, InitClaims, StepClaims, PTL DEF Spec

-----------------------------------------------------------------------------
(* Customers: one that a checkout has not committed yet is its secret.       *)

SecretOf(c) ==
  LET k == checkout[c].customer IN
  /\ k # row.customer /\ k \notin sessions
  /\ \A s \in Subscriptions : stripe[s].customer # k
  /\ \A d \in Checkouts \ {c} :
       checkout[d].pc \in {"update", "upsert", "session"} => checkout[d].customer # k

FreshCustomer == \A c \in Checkouts : checkout[c].pc = "upsert" => SecretOf(c)

Foreign(e) == CustomerOf(e) # row.customer

Dropped ==
  /\ \A h \in Handlers : handler[h].pc = "drop" => Foreign(handler[h].event)
  /\ \A e \in claimed : audit[e] = 0 => Foreign(e)

Customary == FreshCustomer /\ Dropped

LEMMA InitCustomary == Init => Customary
BY DEF Init, Customary, FreshCustomer, Dropped, IdleCheckout, IdleHandler

\* A checkout's customer stays its secret until it commits, and its commit
\* makes no dropped event one of the workspace's customer.
LEMMA CheckoutCustomary ==
  ASSUME Typed, Claims, Customary, NEW c \in Checkouts, Checkout(c)
  PROVE  Customary'
<1> USE DEF Typed, TypeOK, IssuedFirst, RowType, database, provider, history
<1>1. ASSUME UNCHANGED <<row, claimed, audit, handler, stripe>> PROVE Dropped'
  BY <1>1 DEF Customary, Dropped, Foreign, CustomerOf
<1>2. ASSUME NEW plan \in Plans, StartCheckout(c, plan) PROVE Customary'
  <2>1. FreshCustomer'
    BY <1>2 DEF StartCheckout, Customary, FreshCustomer, SecretOf
  <2> QED
    BY <1>1, <1>2, <2>1 DEF StartCheckout, Customary
<1>3. ASSUME NEW k \in Customers, CreateCustomer(c, k) PROVE Customary'
  <2>1. k \notin issued /\ k # None
    BY <1>3, BillingAssumption DEF CreateCustomer
  <2>2. FreshCustomer'
    BY <1>3, <2>1 DEF CreateCustomer, Customary, FreshCustomer, SecretOf
  <2> QED
    BY <1>1, <1>3, <2>2 DEF CreateCustomer, Customary
<1>4. CASE UpdateRow(c)
  <2>1. row'.customer = row.customer
    BY <1>4 DEF UpdateRow, Write, Requested
  <2>2. FreshCustomer'
    BY <1>4, <2>1 DEF UpdateRow, Write, Customary, FreshCustomer, SecretOf
  <2>3. Dropped'
    BY <1>4, <2>1 DEF UpdateRow, Write, Customary, Dropped, Foreign, CustomerOf
  <2> QED
    BY <2>2, <2>3 DEF Customary
<1>5. CASE UpsertRow(c)
  <2> DEFINE k == checkout[c].customer
  <2>1. row'.customer = k /\ SecretOf(c)
    BY <1>5 DEF UpsertRow, Write, Requested, Customary, FreshCustomer
  <2>2. checkout' = [checkout EXCEPT ![c].pc = "session"]
        /\ UNCHANGED <<handler, claimed, audit, provider, history>>
    BY <1>5 DEF UpsertRow, Write
  <2>3. checkout[c].pc = "upsert"
    BY <1>5 DEF UpsertRow
  <2>4. FreshCustomer'
    <3> SUFFICES ASSUME NEW d \in Checkouts, checkout'[d].pc = "upsert" PROVE SecretOf(d)'
      BY DEF FreshCustomer
    <3>1. d # c /\ checkout'[d] = checkout[d] /\ SecretOf(d)
      BY <2>2 DEF Customary, FreshCustomer
    <3>2. checkout[d].customer # k
      BY <2>3, <3>1 DEF SecretOf
    <3> QED
      BY <2>1, <2>2, <2>3, <3>1, <3>2 DEF SecretOf
  <2>5. \A e \in Events : CustomerOf(e)' # row'.customer
    BY <2>1, <2>2, EventFields DEF SecretOf, CustomerOf
  <2>6. Dropped'
    BY <2>2, <2>5 DEF Dropped, Foreign, HandlerOK
  <2> QED
    BY <2>4, <2>6 DEF Customary
<1>6. CASE OpenSession(c)
  <2>1. FreshCustomer'
    BY <1>6 DEF OpenSession, MayOpenSession, Customary, FreshCustomer, SecretOf
  <2> QED
    BY <1>1, <1>6, <2>1 DEF OpenSession, Customary
<1>7. CASE AbandonCheckout(c)
  <2>1. FreshCustomer'
    BY <1>7 DEF AbandonCheckout, Customary, FreshCustomer, SecretOf
  <2> QED
    BY <1>1, <1>7, <2>1 DEF AbandonCheckout, Customary
<1> QED
  BY <1>2, <1>3, <1>4, <1>5, <1>6, <1>7 DEF Checkout

\* Stripe learns of customers through sessions only.
LEMMA StripeCustomary ==
  ASSUME Typed, Claims, Customary, NEW s \in Subscriptions, Stripe(s)
  PROVE  Customary'
<1> USE DEF Typed, TypeOK, IssuedFirst, database, provider, history
<1>1. PICK price \in Prices, status \in Statuses :
        \/ \E k \in Customers : Subscribe(s, k, price, status)
        \/ ChangeSubscription(s, price, status)
  BY DEF Stripe
<1>2. PICK k \in Customers \cup {None} :
        /\ stripe' = [stripe EXCEPT ![s] = [customer |-> k, version |-> @.version + 1]]
        /\ k \in sessions \/ k = stripe[s].customer
        /\ stripe[s].version = 0 \/ k = stripe[s].customer
        /\ sessions' \subseteq sessions
        /\ UNCHANGED <<row, checkout, handler, claimed, audit>>
  BY <1>1 DEF Subscribe, ChangeSubscription, Publish
<1>3. FreshCustomer'
  BY <1>2 DEF Customary, FreshCustomer, SecretOf
<1>4. ASSUME NEW e \in Events, Published(e), Foreign(e) PROVE Foreign(e)'
  <2>1. e[1] \in Subscriptions /\ e[2] \in 1 .. MaxVersion
    BY EventFields
  <2>2. e[1] = s => k = stripe[s].customer
    BY <1>2, <1>4, <2>1 DEF Published
  <2> QED
    BY <1>2, <1>4, <2>1, <2>2 DEF Foreign, CustomerOf
<1>5. Dropped'
  BY <1>2, <1>4 DEF Customary, Dropped, Claims, HandlerOK
<1> QED
  BY <1>3, <1>5 DEF Customary

\* A webhook leaves the customer alone, and drops only what is foreign.
LEMMA WebhookCustomary ==
  ASSUME Typed, Claims, Customary, NEW h \in Handlers, Webhook(h)
  PROVE  Customary'
<1> USE DEF Typed, TypeOK, RowType, database, provider, history
<1>1. row'.customer = row.customer /\ UNCHANGED <<checkout, provider>>
  BY DEF Webhook, ReceiveEvent, Claim, KnownEvent, CheckCustomer, Apply, Applied, Drop, Crash
<1>2. FreshCustomer'
  BY <1>1 DEF Customary, FreshCustomer, SecretOf
<1>3. ASSUME NEW e PROVE Foreign(e)' <=> Foreign(e)
  BY <1>1 DEF Foreign, CustomerOf
<1>4. ASSUME NEW g \in Handlers, handler'[g].pc = "drop" PROVE Foreign(handler'[g].event)
  <2>1. CASE CheckCustomer(h)
    BY <1>4, <2>1 DEF CheckCustomer, Customary, Dropped, Foreign
  <2>2. CASE ~CheckCustomer(h)
    BY <1>4, <2>2 DEF Webhook, ReceiveEvent, Claim, KnownEvent, Apply, Drop, Crash,
       EndWebhook, IdleHandler, Customary, Dropped
  <2> QED
    BY <2>1, <2>2
<1>5. ASSUME NEW e \in claimed', audit'[e] = 0 PROVE Foreign(e)
  <2>1. CASE Apply(h)
    <3>1. e # handler[h].event
      BY <1>5, <2>1 DEF Apply, HandlerOK, Claims
    <3> QED
      BY <1>5, <2>1, <3>1 DEF Apply, Customary, Dropped
  <2>2. CASE Drop(h)
    BY <1>5, <2>2 DEF Drop, Customary, Dropped
  <2>3. CASE ~Apply(h) /\ ~Drop(h)
    BY <1>5, <2>3 DEF Webhook, ReceiveEvent, Claim, KnownEvent, CheckCustomer, Crash,
       Customary, Dropped
  <2> QED
    BY <2>1, <2>2, <2>3
<1> QED
  BY <1>2, <1>3, <1>4, <1>5 DEF Customary, Dropped

LEMMA StepCustomary == Typed /\ Claims /\ Customary /\ [Next]_vars => Customary'
<1> SUFFICES ASSUME Typed, Claims, Customary, [Next]_vars PROVE Customary'
  OBVIOUS
<1>1. CASE UNCHANGED vars
  BY <1>1 DEF vars, database, provider, history, Customary, FreshCustomer, SecretOf,
     Dropped, Foreign, CustomerOf
<1> QED
  BY <1>1, CheckoutCustomary, StripeCustomary, WebhookCustomary DEF Next

\* Events whose claim is spent without effect are never those of the customer
\* the workspace has, now or later.
THEOREM OnlyForeignEventsDropped == Spec => []NoEventLost
<1>1. Customary => NoEventLost
  BY DEF Customary, Dropped, Foreign, NoEventLost
<1> QED
  BY <1>1, InitTyped, StepTyped, InitClaims, StepClaims, InitCustomary, StepCustomary, PTL
  DEF Spec

-----------------------------------------------------------------------------
(* The row: it stands as the newest event of its subscription left it.       *)

AsApplied(s) ==
  LET e == <<s, newest[s]>> IN
  /\ e \in Events /\ Published(e)
  /\ \/ row.status = "INCOMPLETE"
     \/ row.plan = payload[e].price /\ row.status = payload[e].status

Current ==
  /\ row.sub # None /\ row.sub \notin overtaken => AsApplied(row.sub)
  /\ \A e \in Events : audit[e] > 0 => e[2] <= newest[e[1]]

LEMMA InitCurrent == Init => Current
BY DEF Init, Current, NoRow

\* A checkout leaves the row, or asks for a plan.
LEMMA CheckoutRow ==
  ASSUME Typed, NEW c \in Checkouts, Checkout(c)
  PROVE  /\ row'.sub = row.sub /\ (row' = row \/ row'.status = "INCOMPLETE")
         /\ UNCHANGED <<audit, newest, overtaken, stripe, payload>>
BY DEF Typed, TypeOK, RowType, database, provider, history, Checkout, StartCheckout,
   CreateCustomer, UpdateRow, UpsertRow, Write, Requested, OpenSession, AbandonCheckout

LEMMA StepCurrent == Typed /\ Current /\ [Next]_vars => Current'
<1> SUFFICES ASSUME Typed, Current, [Next]_vars PROVE Current'
  OBVIOUS
<1> USE DEF Typed, TypeOK, RowType, database, provider, history
<1>1. ASSUME row'.sub = row.sub, row' = row \/ row'.status = "INCOMPLETE",
             UNCHANGED <<audit, newest, overtaken>>,
             \A e \in Events : Published(e) => Published(e)' /\ payload'[e] = payload[e]
      PROVE  Current'
  BY <1>1 DEF Current, AsApplied
<1>2. UNCHANGED <<stripe, payload>> =>
        \A e \in Events : Published(e) => Published(e)' /\ payload'[e] = payload[e]
  BY DEF Published
<1>3. CASE UNCHANGED vars
  BY <1>1, <1>2, <1>3 DEF vars
<1>4. ASSUME NEW c \in Checkouts, Checkout(c) PROVE Current'
  BY <1>1, <1>2, <1>4, CheckoutRow
<1>5. ASSUME NEW s \in Subscriptions, Stripe(s) PROVE Current'
  <2>1. PICK price \in Prices, status \in Statuses, k \in Customers \cup {None} :
          Publish(s, k, price, status)
    BY <1>5 DEF Stripe, Subscribe, ChangeSubscription
  <2> QED
    BY <1>1, <2>1, PublishKeeps DEF Publish
<1>6. ASSUME NEW h \in Handlers, Webhook(h), ~Apply(h) PROVE Current'
  BY <1>1, <1>2, <1>6 DEF Webhook, ReceiveEvent, Claim, KnownEvent, CheckCustomer, Drop, Crash
<1>7. ASSUME NEW h \in Handlers, Apply(h) PROVE Current'
  <2> DEFINE e == handler[h].event
  <2>1. e \in Events /\ Published(e) /\ e[1] \in Subscriptions /\ e[2] \in 1 .. MaxVersion
        /\ e = <<e[1], e[2]>> /\ e[2] \in Nat /\ newest[e[1]] \in Nat
    BY <1>7, EventFields DEF Apply, HandlerOK
  <2>2. row'.plan = payload[e].price /\ row'.status = payload[e].status /\ row'.sub = e[1]
    BY <1>7 DEF Apply, Applied
  <2>3. newest' = [newest EXCEPT ![e[1]] = IF e[2] > @ THEN e[2] ELSE @]
        /\ audit' = [audit EXCEPT ![e] = @ + 1]
        /\ overtaken' = overtaken \cup {s \in {e[1]} : e[2] < newest[s]}
        /\ UNCHANGED <<stripe, payload>>
    BY <1>7 DEF Apply
  <2>4. ASSUME row'.sub \notin overtaken' PROVE AsApplied(row.sub)'
    <3>1. e[2] >= newest[e[1]]
      BY <2>1, <2>2, <2>3, <2>4
    <3>2. newest'[e[1]] = IF e[2] > newest[e[1]] THEN e[2] ELSE newest[e[1]]
      BY <2>1, <2>3
    <3>4. \A m, n \in Nat : m >= n => (IF m > n THEN m ELSE n) = m
      OBVIOUS
    <3>5. newest'[e[1]] = e[2]
      <4> HIDE DEF e
      <4> QED
        BY <2>1, <3>1, <3>2, <3>4
    <3>3. <<e[1], newest'[e[1]]>> = e
      BY <2>1, <3>5
    <3> QED
      BY <2>1, <2>2, <2>3, <3>3 DEF AsApplied, Published
  <2>5. ASSUME NEW d \in Events, audit'[d] > 0 PROVE d[2] <= newest'[d[1]]
    <3>1. d[1] \in Subscriptions /\ d[2] \in Nat /\ newest[d[1]] \in Nat
      BY EventFields
    <3>2. newest'[d[1]] >= newest[d[1]] /\ newest'[d[1]] \in Nat
      BY <2>1, <2>3, <3>1
    <3>3. CASE d = e
      BY <2>1, <2>3, <3>3
    <3>4. CASE d # e
      BY <2>1, <2>3, <2>5, <3>1, <3>2, <3>4 DEF Current
    <3> QED
      BY <3>3, <3>4
  <2> QED
    BY <2>2, <2>4, <2>5 DEF Current
<1> QED
  BY <1>3, <1>4, <1>5, <1>6, <1>7 DEF Next

\* So each event counts once, for whatever overlaps, crashes and retries.
THEOREM EventsCountOnce == Spec => []EachEventOnce
  BY EventAppliedOnce, OnlyForeignEventsDropped, PTL DEF EachEventOnce

\* Delivered in order, the events of the workspace's subscription leave in the
\* row what Stripe published last and the code knows.
THEOREM InOrderEventsAreCurrent == Spec => []InOrderIsCurrent
<1>1. ASSUME Typed, Claims, Customary, Current PROVE InOrderIsCurrent
  <2> DEFINE s == row.sub
  <2> SUFFICES ASSUME s # None, s \notin overtaken, stripe[s].customer = row.customer,
                      SyncedEvents(s) \subseteq claimed, row.status # "INCOMPLETE"
               PROVE  /\ \A e \in SyncedEvents(s) : e[2] <= newest[s]
                      /\ row.plan = payload[<<s, newest[s]>>].price
                      /\ row.status = payload[<<s, newest[s]>>].status
    BY DEF InOrderIsCurrent
  <2>1. row.plan = payload[<<s, newest[s]>>].price
        /\ row.status = payload[<<s, newest[s]>>].status
    BY <1>1 DEF Current, AsApplied
  <2>2. ASSUME NEW e \in SyncedEvents(s) PROVE e[2] <= newest[s]
    <3>1. e \in Events /\ e[1] = s /\ e \in claimed
      BY DEF SyncedEvents
    <3>2. audit[e] \in Nat /\ audit[e] # 0
      BY <1>1, <3>1 DEF Typed, TypeOK, Customary, Dropped, Foreign, CustomerOf
    <3> QED
      BY <1>1, <3>1, <3>2 DEF Current
  <2> QED
    BY <2>1, <2>2
<1> QED
  BY <1>1, InitTyped, StepTyped, InitClaims, StepClaims, InitCustomary, StepCustomary,
     InitCurrent, StepCurrent, PTL DEF Spec

\* No client request makes a workspace Pro: only a step that applies an event of
\* the Pro price in an eligible status does.
THEOREM ProComesFromStripe == Spec => OnlyStripeGrants
<1> DEFINE Grants == EffectivePlan(row') = "PRO" /\ EffectivePlan(row) # "PRO" =>
             \E e \in Events :
               /\ audit'[e] > audit[e]
               /\ payload[e].price = "PRO" /\ payload[e].status \in {"ACTIVE", "TRIALING"}
<1>1. Typed /\ [Next]_vars => [Grants]_vars
  <2> SUFFICES ASSUME Typed, [Next]_vars PROVE Grants \/ UNCHANGED vars
    OBVIOUS
  <2> USE DEF Typed, TypeOK, RowType, database
  <2>1. row' = row => Grants
    OBVIOUS
  <2>2. ASSUME NEW c \in Checkouts, Checkout(c) PROVE Grants
    <3>1. row' = row \/ row'.status = "INCOMPLETE"
      BY <2>2, CheckoutRow
    <3> QED
      BY <2>1, <3>1 DEF EffectivePlan
  <2>3. ASSUME NEW s \in Subscriptions, Stripe(s) PROVE Grants
    <3>1. row' = row
      BY <2>3 DEF Stripe, Subscribe, ChangeSubscription, Publish
    <3> QED
      BY <2>1, <3>1
  <2>4. ASSUME NEW h \in Handlers, Webhook(h), ~Apply(h) PROVE Grants
    <3>1. row' = row
      BY <2>4 DEF Webhook, ReceiveEvent, Claim, KnownEvent, CheckCustomer, Drop, Crash
    <3> QED
      BY <2>1, <3>1
  <2>5. ASSUME NEW h \in Handlers, Apply(h) PROVE Grants
    <3> DEFINE e == handler[h].event
    <3>1. e \in Events /\ audit'[e] > audit[e]
      BY <2>5 DEF Apply, HandlerOK
    <3>2. row'.plan = payload[e].price /\ row'.status = payload[e].status
      BY <2>5 DEF Apply, Applied
    <3> QED
      BY <3>1, <3>2 DEF EffectivePlan
  <2> QED
    BY <2>2, <2>3, <2>4, <2>5 DEF Next
<1> QED
  BY <1>1, InitTyped, StepTyped, PTL DEF Spec, OnlyStripeGrants
=============================================================================
